---- MODULE Spec2Model ----
(***************************************************************************)
(* The Webull session client (webull/webull.py), its paper-trading variant *)
(* (webull/paper_webull.py) and the endpoint table (webull/endpoints.py).  *)
(*                                                                         *)
(* The client object's fields are the state.  Every public method is one   *)
(* action: the method's code is translated into an operator that threads a *)
(* call context k = [s, fs, sent, ret] through its statements, where s is  *)
(* the client object, fs the credential files on disk, sent the HTTP       *)
(* requests the call has issued so far (each with the headers, the         *)
(* endpoint and the payload it carried, and the vendor's answer) and ret   *)
(* the value returned or the exception raised.  The vendor's answers and   *)
(* the caller's arguments are the action's inputs.                         *)
(*                                                                         *)
(* Python strings are TLA+ strings; Python None is the string "None"; a    *)
(* key that a dict does not hold is Absent.                                *)
(***************************************************************************)
EXTENDS Integers, Sequences, FiniteSets, TLC

\* ------------------------------------------------------------------ bounds
\* Number of distinct credential sets the vendor issues.
NumCreds == 1
\* Number of distinct trade tokens the vendor issues.
NumTradeTokens == 1
\* Largest number of open orders the vendor reports in one account.
MaxOrders == 2
\* Largest number of items in the vendor's answer to a ticker search.
MaxData == 3
\* The most rows in the vendor's answer to a bars request.
MaxRows == 3
\* The largest number a CSV field of a bars answer holds.
MaxNumber == 27

\* ------------------------------------------------------------------ values
Absent == "<absent>"
None == "None"

Exceptions == {"ValueError", "KeyError", "TypeError", "AttributeError", "Exception",
               "IndexError"}

\* The credential set number i that the vendor issues on login or refresh.
Cred(i) ==
    [kind |-> "cred",
     accessToken |-> "access" \o ToString(i),
     refreshToken |-> "refresh" \o ToString(i),
     tokenExpireTime |-> "expire" \o ToString(i),
     uuid |-> "uuid" \o ToString(i)]

\* A dict of the vendor that holds none of the credential keys (an error body).
RejectedBody ==
    [kind |-> "rejected", accessToken |-> Absent, refreshToken |-> Absent,
     tokenExpireTime |-> Absent, uuid |-> Absent]

\* A credential dict whose four values are empty strings.
EmptyCred ==
    [kind |-> "cred", accessToken |-> "", refreshToken |-> "",
     tokenExpireTime |-> "", uuid |-> ""]

\* The attribute _credential_data before anything assigned it.
Unset ==
    [kind |-> "unset", accessToken |-> Absent, refreshToken |-> Absent,
     tokenExpireTime |-> Absent, uuid |-> Absent]

\* A path that open() fails on with OSError: it names no file, or a file
\* that cannot be opened.
NoFile ==
    [kind |-> "nofile", accessToken |-> Absent, refreshToken |-> Absent,
     tokenExpireTime |-> Absent, uuid |-> Absent]

Creds == {Cred(i) : i \in 1..NumCreds}
TradeTokens == {"trade" \o ToString(i) : i \in 1..NumTradeTokens}
LiveAccounts == {"sec1"}
PaperAccounts == {"paper1"}
DeviceIds == {"did1"}
DefaultZone == "dc_core_r001"
\* The zones the vendor names in an account list.
Zones == {DefaultZone}

DEFAULT_CREDENTIAL_PATH == "webull_credentials.json"
\* A credential path that a caller names, other than the default one.
OtherPath == "my_credentials.json"
Paths == {DEFAULT_CREDENTIAL_PATH, OtherPath}

Symbols == {"AAPL", "AAPLX"}

\* ------------------------------------------------------------------ state
VARIABLES
    variant,          \* class of the client object: "Webull" or "PaperWebull"
    account_id,       \* self._account_id
    trade_token,      \* self._trade_token
    access_token,     \* self._access_token
    refresh_token,    \* self._refresh_token
    token_expire,     \* self._token_expire
    uuid,             \* self._uuid
    did,              \* self._did
    zone_var,         \* self.zone_var
    headers,          \* self._headers (one dict object, shared by every call)
    credential_data,  \* self._credential_data
    files,            \* the credential files on disk, by path
    op,               \* the public method that ran last
    sent,             \* the HTTP requests that method sent, in order
    ret,              \* what it returned, or the exception it raised
    val               \* the dict or table it returned, where it returns one

vars == <<variant, account_id, trade_token, access_token, refresh_token,
          token_expire, uuid, did, zone_var, headers, credential_data,
          files, op, sent, ret, val>>

session == <<access_token, refresh_token, trade_token, account_id, token_expire>>

\* The client object as one record.
Self ==
    [variant |-> variant, account_id |-> account_id, trade_token |-> trade_token,
     access_token |-> access_token, refresh_token |-> refresh_token,
     token_expire |-> token_expire, uuid |-> uuid, did |-> did,
     zone_var |-> zone_var, headers |-> headers,
     credential_data |-> credential_data]

\* No call is in progress or awaiting its caller.
Idle == "-"

\* The client is ready for a call.
Ready == op = Idle

\* The context of a call that starts in the current state.
Call == [s |-> Self, fs |-> files, sent |-> <<>>, ret |-> None, val |-> Unset]

\* (k.val is the dict a method hands back to the method that called it; ret is
\* its summary: an exception's name, a scalar, or the kind of dict returned.)
\* The call named name ended in context k.
Return(name, k) ==
    /\ op = Idle
    /\ op' = name
    /\ variant' = k.s.variant
    /\ account_id' = k.s.account_id
    /\ trade_token' = k.s.trade_token
    /\ access_token' = k.s.access_token
    /\ refresh_token' = k.s.refresh_token
    /\ token_expire' = k.s.token_expire
    /\ uuid' = k.s.uuid
    /\ did' = k.s.did
    /\ zone_var' = k.s.zone_var
    /\ headers' = k.s.headers
    /\ credential_data' = k.s.credential_data
    /\ files' = k.fs
    /\ sent' = k.sent
    /\ ret' = k.ret
    /\ val' = k.val

Raised(k) == k.ret \in Exceptions
Raise(k, e) == [k EXCEPT !.ret = e]
Result(k, v) == [k EXCEPT !.ret = v]

\* ------------------------------------------------------- endpoints.py
\* The base URL of every endpoint function the client calls.
BaseUrl(ep) ==
    CASE ep \in {"account", "account_id", "dividends", "is_tradable",
                 "replace_option_orders"} -> "base_trade_url"
      [] ep \in {"account_activities", "cancel_order", "modify_otoco_orders",
                 "cancel_otoco_orders", "check_otoco_orders",
                 "place_otoco_orders", "place_option_orders", "place_orders",
                 "modify_order"} -> "base_ustrade_url"
      [] ep \in {"orders"} -> "base_ustradebroker_url"
      [] ep \in {"paper_orders", "paper_cancel_order", "paper_modify_order",
                 "paper_place_order"} -> "base_paper_url"
      [] ep \in {"paper_account", "paper_account_id"} -> "base_paperfintech_url"
      [] ep \in {"login", "refresh_login", "user", "social_posts",
                 "social_home"} -> "base_user_url"
      [] ep \in {"get_mfa", "check_mfa", "get_security", "next_security",
                 "check_security"} -> "base_userfintech_url"
      [] ep \in {"logout", "add_alert", "list_alerts", "remove_alert",
                 "screener"} -> "base_userbroker_url"
      [] ep \in {"trade_token"} -> "base_new_trade_url"
      [] ep \in {"stock_id", "quotes", "option_quotes", "options_bars",
                 "portfolio_lists"} -> "base_options_gw_url"
      [] ep \in {"options", "options_exp_date"} -> "base_options_url"
      [] ep \in {"bars"} -> "base_quote_url"
      [] ep \in {"bars_crypto", "news", "active_gainers_losers"} -> "base_fintech_gw_url"
      [] OTHER -> "base_securities_url"

\* The endpoint functions whose URL holds an account id.
AccountScoped ==
    {"account", "account_activities", "cancel_order", "modify_otoco_orders",
     "cancel_otoco_orders", "check_otoco_orders", "place_otoco_orders",
     "dividends", "orders", "paper_orders", "paper_account",
     "paper_cancel_order", "paper_modify_order", "paper_place_order",
     "place_option_orders", "place_orders", "modify_order",
     "replace_option_orders"}

\* The paper-trading (sandbox) bases.
PaperBases == {"base_paper_url", "base_paperfintech_url"}

\* ------------------------------------------------------- requests
\* The payload of a request that is no order.
NoData == [orderType |-> "-", keys |-> {}, outsideRegularTradingHour |-> FALSE]

\* requests.get / requests.post with headers=h: one request leaves, and the
\* vendor answers resp (with body, where the call reads one).  ep is the
\* endpoint function with its url argument (0 where it has none).
Request(k, h, ep, acct, tId, data, resp, body) ==
    [k EXCEPT !.sent = Append(@,
        [ep |-> ep[1], url |-> ep[2], acct |-> acct, tId |-> tId, keyword |-> "-",
         access_token |-> h.access_token, t_token |-> h.t_token,
         t_time |-> h.t_time,
         data |-> data, resp |-> resp, body |-> body])]

\* A header dict that holds none of the session keys (run_screener sends none).
NoHeaders == [did |-> Absent, access_token |-> Absent, t_token |-> Absent,
              t_time |-> Absent, lzone |-> Absent]

\* Webull.build_req_headers: headers IS self._headers, so every key set here is
\* set in the stored dict, and what it returns is the stored dict.  The clock
\* value written to t_time is abstracted to "now".
build_req_headers(k, include_trade_token, include_time) ==
    [k EXCEPT !.s.headers =
        [did |-> k.s.did,
         access_token |-> k.s.access_token,
         t_token |-> IF include_trade_token THEN k.s.trade_token ELSE @.t_token,
         t_time |-> IF include_time THEN "now" ELSE @.t_time,
         lzone |-> k.s.zone_var]]

\* ------------------------------------------------------- account id
\* What the account-list endpoints answer.
LiveAccountAnswers ==
    [kind : {"ok"}, id : LiveAccounts, rzone : Zones]
    \cup [kind : {"rejected", "nodata", "malformed"}, id : {None}, rzone : {None}]
PaperAccountAnswers ==
    [kind : {"ok"}, id : PaperAccounts, rzone : {None}]
    \cup [kind : {"empty", "noid", "errorobj"}, id : {None}, rzone : {None}]
AccountAnswers(v) == IF v = "PaperWebull" THEN PaperAccountAnswers ELSE LiveAccountAnswers

\* Webull.get_account_id
Webull_get_account_id(k, r) ==
    LET k1 == build_req_headers(k, FALSE, FALSE)
        k2 == Request(k1, k1.s.headers, <<"account_id", 0>>, "-", "-", NoData, r.kind, <<>>)
    IN  CASE r.kind = "malformed" -> Raise(k2, "KeyError")
          [] r.kind = "ok" ->
                [k2 EXCEPT !.s.zone_var = r.rzone, !.s.account_id = r.id, !.ret = r.id]
          [] OTHER -> Result(k2, None)

\* PaperWebull.get_account_id
PaperWebull_get_account_id(k, r) ==
    LET k1 == build_req_headers(k, FALSE, FALSE)
        k2 == Request(k1, k1.s.headers, <<"paper_account_id", 0>>, "-", "-", NoData, r.kind, <<>>)
    IN  CASE r.kind = "errorobj" -> Raise(k2, "KeyError")
          [] r.kind = "ok" -> [k2 EXCEPT !.s.account_id = r.id, !.ret = r.id]
          [] OTHER -> Result(k2, None)

\* self.get_account_id(), by the class of self
get_account_id(k, r) ==
    IF k.s.variant = "PaperWebull"
    THEN PaperWebull_get_account_id(k, r)
    ELSE Webull_get_account_id(k, r)

\* ------------------------------------------------------- credentials
\* What the refresh endpoint answers: a new token set (the answer has no uuid),
\* an error body, a token set of empty strings, or an answer that holds an
\* accessToken and no refreshToken.
RefreshAnswers ==
    {[c EXCEPT !.uuid = Absent] : c \in Creds}
    \cup {RejectedBody,
          [EmptyCred EXCEPT !.uuid = Absent],
          [Cred(1) EXCEPT !.kind = "malformed", !.refreshToken = Absent, !.uuid = Absent]}

\* What the login endpoint answers: a token set, an error body, or an answer
\* that holds an accessToken and no refreshToken.
LoginAnswers ==
    Creds \cup {RejectedBody,
                [Cred(1) EXCEPT !.kind = "malformed", !.refreshToken = Absent]}

\* The answer holds the four keys that login reads.
HasLoginKeys(rl) ==
    /\ rl.accessToken # Absent /\ rl.refreshToken # Absent
    /\ rl.tokenExpireTime # Absent /\ rl.uuid # Absent

\* Webull._save_token
save_token_file(k, token, path) ==
    [k EXCEPT !.fs[IF path = "" THEN DEFAULT_CREDENTIAL_PATH ELSE path] = token]

\* refresh_login that stores the answer's tokens without looking at them.
refresh_login_unguarded(k, save_token, token_path, r) ==
    LET k1 == build_req_headers(k, FALSE, FALSE)
        k2 == Request(k1, k1.s.headers, <<"refresh_login", 0>>, "-", "-", NoData, r.kind, <<>>)
    IN  IF r.accessToken = Absent \/ r.refreshToken = Absent
        THEN [k2 EXCEPT !.ret = r.kind, !.val = r]
        ELSE [k2 EXCEPT !.s.access_token = r.accessToken,
                        !.s.refresh_token = r.refreshToken,
                        !.s.token_expire = r.tokenExpireTime,
                        !.ret = r.kind, !.val = r]

\* refresh_login that stores each token as it reads it from the answer.
refresh_login_stepwise(k, save_token, token_path, r) ==
    LET k1 == build_req_headers(k, FALSE, FALSE)
        k2 == Request(k1, k1.s.headers, <<"refresh_login", 0>>, "-", "-", NoData, r.kind, <<>>)
        k3 == [k2 EXCEPT !.s.access_token = r.accessToken]
    IN  IF r.accessToken # Absent /\ r.accessToken # ""
        THEN IF r.refreshToken = Absent
                \/ (r.refreshToken # "" /\ r.tokenExpireTime = Absent)
             THEN Raise(k3, "KeyError")
             ELSE IF r.refreshToken # "" /\ r.tokenExpireTime # ""
                  THEN LET result == [r EXCEPT !.uuid = k2.s.uuid]
                           k4 == [k3 EXCEPT !.s.refresh_token = r.refreshToken,
                                            !.s.token_expire = r.tokenExpireTime,
                                            !.ret = result.kind, !.val = result]
                       IN  IF save_token THEN save_token_file(k4, result, token_path) ELSE k4
                  ELSE [k3 EXCEPT !.ret = r.kind, !.val = r]
        ELSE [k2 EXCEPT !.ret = r.kind, !.val = r]

\* Webull.refresh_login
refresh_login(k, save_token, token_path, r) ==
    LET k1 == build_req_headers(k, FALSE, FALSE)
        k2 == Request(k1, k1.s.headers, <<"refresh_login", 0>>, "-", "-", NoData, r.kind, <<>>)
    IN  IF r.accessToken # Absent /\ r.accessToken # ""
        THEN IF r.refreshToken = Absent
                \/ (r.refreshToken # "" /\ r.tokenExpireTime = Absent)
             THEN Raise(k2, "KeyError")
             ELSE IF r.refreshToken # "" /\ r.tokenExpireTime # ""
                  THEN LET result == [r EXCEPT !.uuid = k2.s.uuid]
                           k3 == [k2 EXCEPT !.s.access_token = r.accessToken,
                                            !.s.refresh_token = r.refreshToken,
                                            !.s.token_expire = r.tokenExpireTime,
                                            !.ret = result.kind, !.val = result]
                       IN  IF save_token THEN save_token_file(k3, result, token_path) ELSE k3
                  ELSE [k2 EXCEPT !.ret = r.kind, !.val = r]
        ELSE [k2 EXCEPT !.ret = r.kind, !.val = r]

\* Webull.save_credential; credential_data = Unset is the default argument None
save_credential(k, path, credential_data_arg) ==
    LET credential_path == IF path = "" THEN DEFAULT_CREDENTIAL_PATH ELSE path
    IN  IF credential_data_arg.kind = "unset" /\ k.s.credential_data.kind = "unset"
        THEN Raise(k, "AttributeError")
        ELSE LET data == IF credential_data_arg.kind = "unset"
                         THEN k.s.credential_data ELSE credential_data_arg
             IN  [k EXCEPT !.s.credential_data = data,
                           !.fs[credential_path] = data,
                           !.ret = data.kind, !.val = data]

\* Webull.credential_login from "self._credential_data = self.refresh_login()"
\* on, in the context k6 that refresh_login left: the refreshed credential is
\* saved and the credential read from the file is returned
credential_login_save(k6, credential_path, credential_data_read) ==
    IF Raised(k6) THEN k6
    ELSE LET k8 == save_credential([k6 EXCEPT !.s.credential_data = k6.val],
                                   credential_path, Unset)
         IN  IF Raised(k8) THEN k8
             ELSE [k8 EXCEPT !.ret = credential_data_read.kind, !.val = credential_data_read]

\* Webull.credential_login from "if refresh:" on, in the context k5 that
\* get_account_id left
credential_login_refresh(k5, credential_path, credential_data_read, refresh, rr) ==
    IF Raised(k5) THEN k5
    ELSE IF ~refresh
         THEN [k5 EXCEPT !.ret = credential_data_read.kind, !.val = credential_data_read]
    ELSE credential_login_save(refresh_login(k5, FALSE, "", rr),
                               credential_path, credential_data_read)

\* credential_login that drops the tokens when the file cannot be opened.
credential_login_reset(k, path, refresh, ra, rr) ==
    LET credential_path == IF path = "" THEN DEFAULT_CREDENTIAL_PATH ELSE path
        credential_data_read == k.fs[credential_path]
    IN  IF credential_data_read.kind = "nofile"
        THEN Result([k EXCEPT !.s.access_token = "", !.s.refresh_token = ""], None)
        ELSE IF credential_data_read.refreshToken = Absent THEN Raise(k, "KeyError")
        ELSE LET k1 == [k EXCEPT !.s.refresh_token = credential_data_read.refreshToken]
             IN  IF credential_data_read.accessToken = Absent THEN Raise(k1, "KeyError")
        ELSE LET k2 == [k1 EXCEPT !.s.access_token = credential_data_read.accessToken]
             IN  IF credential_data_read.tokenExpireTime = Absent THEN Raise(k2, "KeyError")
        ELSE LET k3 == [k2 EXCEPT !.s.token_expire = credential_data_read.tokenExpireTime]
             IN  IF credential_data_read.uuid = Absent THEN Raise(k3, "KeyError")
        ELSE LET k4 == [k3 EXCEPT !.s.uuid = credential_data_read.uuid,
                                  !.s.credential_data = credential_data_read]
             IN  credential_login_refresh(get_account_id(k4, ra), credential_path,
                                          credential_data_read, refresh, rr)

\* Webull.credential_login; ra answers the account lookup, rr the refresh
credential_login(k, path, refresh, ra, rr) ==
    LET credential_path == IF path = "" THEN DEFAULT_CREDENTIAL_PATH ELSE path
        credential_data_read == k.fs[credential_path]
    IN  IF credential_data_read.kind = "nofile" THEN Result(k, None)
        ELSE IF credential_data_read.refreshToken = Absent THEN Raise(k, "KeyError")
        ELSE LET k1 == [k EXCEPT !.s.refresh_token = credential_data_read.refreshToken]
             IN  IF credential_data_read.accessToken = Absent THEN Raise(k1, "KeyError")
        ELSE LET k2 == [k1 EXCEPT !.s.access_token = credential_data_read.accessToken]
             IN  IF credential_data_read.tokenExpireTime = Absent THEN Raise(k2, "KeyError")
        ELSE LET k3 == [k2 EXCEPT !.s.token_expire = credential_data_read.tokenExpireTime]
             IN  IF credential_data_read.uuid = Absent THEN Raise(k3, "KeyError")
        ELSE LET k4 == [k3 EXCEPT !.s.uuid = credential_data_read.uuid,
                                  !.s.credential_data = credential_data_read]
             IN  credential_login_refresh(get_account_id(k4, ra), credential_path,
                                          credential_data_read, refresh, rr)

\* Webull.login from "self._account_id = self.get_account_id()" on, in the
\* context k5 that get_account_id left
login_account(k5, save_token, token_path, rl) ==
    IF Raised(k5) THEN k5
    ELSE LET k6 == [k5 EXCEPT !.s.account_id = k5.ret,
                              !.s.credential_data = rl,
                              !.ret = rl.kind, !.val = rl]
         IN  IF save_token THEN save_token_file(k6, rl, token_path) ELSE k6

\* Webull.login from "if not username or not password:" on, in the context k1
\* that the credential_login of a given credential_path left
login_request(k1, userpass, has_mfa, credential_path, save_token, token_path, rl, ra2) ==
    IF credential_path # "" /\ Raised(k1) THEN k1
    ELSE IF ~userpass THEN credential_login(k1, "", FALSE, ra2, RejectedBody)
    ELSE LET k2 == IF has_mfa THEN build_req_headers(k1, FALSE, FALSE) ELSE k1
             k3 == Request(k2, k2.s.headers, <<"login", 0>>, "-", "-", NoData, rl.kind, <<>>)
         IN  IF rl.accessToken = Absent
             THEN [k3 EXCEPT !.ret = rl.kind, !.val = rl]
             ELSE IF rl.refreshToken = Absent
             THEN Raise([k3 EXCEPT !.s.access_token = rl.accessToken], "KeyError")
             ELSE IF rl.tokenExpireTime = Absent
             THEN Raise([k3 EXCEPT !.s.access_token = rl.accessToken,
                                   !.s.refresh_token = rl.refreshToken], "KeyError")
             ELSE IF rl.uuid = Absent
             THEN Raise([k3 EXCEPT !.s.access_token = rl.accessToken,
                                   !.s.refresh_token = rl.refreshToken,
                                   !.s.token_expire = rl.tokenExpireTime], "KeyError")
             ELSE login_account(
                      get_account_id([k3 EXCEPT !.s.access_token = rl.accessToken,
                                                !.s.refresh_token = rl.refreshToken,
                                                !.s.token_expire = rl.tokenExpireTime,
                                                !.s.uuid = rl.uuid], ra2),
                      save_token, token_path, rl)

\* Webull.login; userpass: username and password are both non-empty;
\* has_mfa: mfa # ''; ra1 answers the account lookup of the first
\* credential_login, ra2 the one after it, rl the login request
login(k, userpass, has_mfa, credential_path, save_token, token_path, ra1, rl, ra2) ==
    login_request(IF credential_path # ""
                  THEN credential_login(k, credential_path, FALSE, ra1, RejectedBody)
                  ELSE k,
                  userpass, has_mfa, credential_path, save_token, token_path, rl, ra2)

\* Webull.api_login: "self._account_id = self.get_account_id()" in the context
\* k2 that get_account_id left
api_login_account(k2) ==
    IF Raised(k2) THEN k2
    ELSE [k2 EXCEPT !.s.account_id = k2.ret, !.ret = None]

\* Webull.api_login
api_login(k, c, ra) ==
    LET k1 == [k EXCEPT !.s.access_token = c.accessToken,
                        !.s.refresh_token = c.refreshToken,
                        !.s.token_expire = c.tokenExpireTime,
                        !.s.uuid = c.uuid]
    IN  api_login_account(get_account_id(k1, ra))

\* logout that forgets the session.
logout_clears(k, status) ==
    LET k1 == build_req_headers(k, FALSE, FALSE)
        k2 == Request(k1, k1.s.headers, <<"logout", 0>>, "-", "-", NoData, status, <<>>)
    IN  [k2 EXCEPT !.s.access_token = "", !.s.refresh_token = "", !.s.trade_token = "",
                   !.ret = status]

\* Webull.logout; status is the HTTP status code of the answer
logout(k, status) ==
    LET k1 == build_req_headers(k, FALSE, FALSE)
        k2 == Request(k1, k1.s.headers, <<"logout", 0>>, "-", "-", NoData, status, <<>>)
    IN  Result(k2, status)

\* What the trade-token endpoint answers: the key tradeToken, or none.
TradeTokenAnswers == TradeTokens \cup {Absent}

\* get_trade_token that forgets the stored token when the vendor refuses.
get_trade_token_forgets(k, tradeToken) ==
    LET k1 == build_req_headers(k, FALSE, FALSE)
        k2 == Request(k1, k1.s.headers, <<"trade_token", 0>>, "-", "-", NoData,
                      IF tradeToken = Absent THEN "rejected" ELSE "ok", <<>>)
    IN  IF tradeToken # Absent
        THEN [k2 EXCEPT !.s.trade_token = tradeToken, !.ret = "True"]
        ELSE [k2 EXCEPT !.s.trade_token = "", !.ret = "False"]

\* Webull.get_trade_token
get_trade_token(k, tradeToken) ==
    LET k1 == build_req_headers(k, FALSE, FALSE)
        k2 == Request(k1, k1.s.headers, <<"trade_token", 0>>, "-", "-", NoData,
                      IF tradeToken = Absent THEN "rejected" ELSE "ok", <<>>)
    IN  IF tradeToken # Absent
        THEN [k2 EXCEPT !.s.trade_token = tradeToken, !.ret = "True"]
        ELSE Result(k2, "False")

\* Webull.is_logged_in: the try/except around get_account_id, in the context
\* k1 that get_account_id left
is_logged_in_result(k1) ==
    IF k1.ret = "KeyError" THEN Result(k1, "False") ELSE Result(k1, "True")

\* Webull.is_logged_in
is_logged_in(k, ra) == is_logged_in_result(get_account_id(k, ra))

\* Webull.login_prompt: "return self.get_trade_token(...)" in the context k1
\* that login left
login_prompt_trade_token(k1, tradeToken) ==
    IF Raised(k1) THEN k1 ELSE get_trade_token(k1, tradeToken)

\* Webull.login_prompt: login, then get_trade_token with the PIN typed in
login_prompt(k, userpass, ra1, rl, ra2, tradeToken) ==
    login_prompt_trade_token(login(k, userpass, FALSE, "", FALSE, "", ra1, rl, ra2),
                             tradeToken)

\* Webull.get_account_type: no request; 2 for an e-mail address, 1 otherwise
get_account_type(k, is_email) == Result(k, IF is_email THEN "2" ELSE "1")

\* Webull.get_mfa, check_mfa, check_security: one request that carries the
\* stored header dict as it stands (no build_req_headers)
stored_headers_request(k, ep, resp) ==
    Result(Request(k, k.s.headers, <<ep, 0>>, "-", "-", NoData, resp, <<>>), resp)

\* Webull.get_security, next_security (ep names which); first and second are
\* the answers: a list of questions ("data") or an empty list ("empty")
get_security(k, ep, first, second) ==
    LET k1 == Request(k, k.s.headers, <<ep, 0>>, "-", "-", NoData, first, <<>>)
    IN  IF first = "empty"
        THEN Result(Request(k1, k1.s.headers, <<ep, 1>>, "-", "-", NoData, second, <<>>),
                    second)
        ELSE Result(k1, first)

\* ------------------------------------------------------- ticker lookup
\* An argument that is no string (an int, say).
NotAString == "<int>"
\* The stock arguments a caller passes.
StockArgs == Symbols \cup {"", None, NotAString}

\* The i-th item of the vendor's answer to a ticker search; the items of an
\* answer are different tickers, and a ticker id is never 0, the value the
\* client's loop starts from.
TickerItems(i) ==
    [symbol : Symbols \cup {Absent}, disSymbol : Symbols \cup {Absent},
     tickerId : {"tid" \o ToString(i)}]

\* The loop that looks at the symbol of each item alone.
RECURSIVE scan_tickers_by_symbol(_, _, _)
scan_tickers_by_symbol(data, stock, i) ==
    IF i > Len(data) THEN "0"
    ELSE IF data[i].symbol # Absent /\ data[i].symbol = stock THEN data[i].tickerId
    ELSE scan_tickers_by_symbol(data, stock, i + 1)

\* The loop of Webull.get_ticker over result['data'], from item i on: the
\* tickerId of the first item whose symbol or disSymbol is stock, else "0".
RECURSIVE scan_tickers(_, _, _)
scan_tickers(data, stock, i) ==
    IF i > Len(data) THEN "0"
    ELSE IF data[i].symbol # Absent /\ data[i].symbol = stock THEN data[i].tickerId
    ELSE IF data[i].disSymbol # Absent /\ data[i].disSymbol = stock THEN data[i].tickerId
    ELSE scan_tickers(data, stock, i + 1)

\* get_ticker that answers from the data without asking for it.
get_ticker_unsent(k, stock, data) ==
    IF stock \notin Symbols \/ data = <<>> THEN Raise(k, "ValueError")
    ELSE Result(k, data[1].tickerId)

\* Webull.get_ticker; data is result.get('data'), <<>> when missing or empty
get_ticker(k, stock, data) ==
    LET k1 == build_req_headers(k, FALSE, FALSE)
    IN  IF stock \notin Symbols THEN Raise(k1, "ValueError")
        ELSE LET k2 == [k1 EXCEPT !.sent = Append(@,
                          [ep |-> "stock_id", url |-> 0, acct |-> "-", tId |-> "-",
                           keyword |-> stock,
                           access_token |-> k1.s.headers.access_token,
                           t_token |-> k1.s.headers.t_token,
                           t_time |-> k1.s.headers.t_time,
                           data |-> NoData,
                           resp |-> IF data = <<>> THEN "nodata" ELSE "data",
                           body |-> data])]
                 ticker_id == scan_tickers(data, stock, 1)
             IN  IF data = <<>> THEN Raise(k2, "ValueError")
                 ELSE IF ticker_id = "0" THEN Result(k2, data[1].tickerId)
                 ELSE Result(k2, ticker_id)

\* "if not tId is None: pass / elif not stock is None: tId = self.get_ticker(stock)
\*  / else: raise ValueError": the ticker id is the result
resolve_ticker(k, stock, tId, data) ==
    IF tId # None THEN Result(k, tId)
    ELSE IF stock # None THEN get_ticker(k, stock, data)
    ELSE Raise(k, "ValueError")

\* ------------------------------------------------------- market data
\* The methods that build the headers and send one request:
\* method -> endpoint function.
PlainEndpoint(m) ==
    CASE m = "get_detail" -> "user"
      [] m = "alerts_list" -> "list_alerts"
      [] m = "active_gainer_loser" -> "active_gainers_losers"
      [] m = "get_five_min_ranking" -> "rankings"
      [] m = "get_watchlists" -> "portfolio_lists"
      [] m = "get_social_posts" -> "social_posts"
      [] m = "get_social_home" -> "social_home"
      [] m = "alerts_remove" -> "remove_alert"
      [] m = "get_options_bars" -> "options_bars"
PlainMethods(v) ==
    {"get_detail", "alerts_list", "active_gainer_loser", "get_five_min_ranking",
     "get_watchlists", "alerts_remove", "get_options_bars"}
    \cup IF v = "PaperWebull" THEN {"get_social_posts", "get_social_home"} ELSE {}

\* get_detail, alerts_list, active_gainer_loser, get_five_min_ranking,
\* get_watchlists, get_social_posts, get_social_home, alerts_remove,
\* get_options_bars (with a derivative id)
plain_request(k, m, resp) ==
    LET k1 == build_req_headers(k, FALSE, FALSE)
        k2 == Request(k1, k1.s.headers, <<PlainEndpoint(m), 0>>, "-", "-", NoData, resp, <<>>)
    IN  IF m = "alerts_remove" /\ resp # "ok" THEN Raise(k2, "Exception")
        ELSE IF m \in {"get_five_min_ranking", "get_watchlists", "get_options_bars"}
                /\ resp # "ok" THEN Raise(k2, "KeyError")
        ELSE Result(k2, resp)

\* The methods that look the ticker up and send one request with its id.
StockEndpoint(m) ==
    CASE m = "get_tradable" -> "is_tradable"
      [] m = "get_analysis" -> "analysis"
      [] m = "get_financials" -> "fundamentals"
      [] m = "get_options_expiration_dates" -> "options_exp_date"
StockMethods ==
    {"get_tradable", "get_analysis", "get_financials", "get_options_expiration_dates"}

\* The request of these methods, in the context k2 that get_ticker left
stock_request_send(k2, m, resp) ==
    IF Raised(k2) THEN k2
    ELSE LET k3 == Request(k2, k2.s.headers, <<StockEndpoint(m), 0>>, "-", k2.ret,
                           NoData, resp, <<>>)
         IN  IF m = "get_options_expiration_dates" /\ resp # "ok"
             THEN Raise(k3, "KeyError")
             ELSE Result(k3, resp)

\* get_tradable, get_analysis, get_financials, get_options_expiration_dates
stock_request(k, m, stock, data, resp) ==
    stock_request_send(get_ticker(build_req_headers(k, FALSE, FALSE), stock, data), m, resp)

\* The methods that take a stock symbol or a ticker id, build the headers,
\* settle the ticker id and send one request with it.
TickerEndpoint(m) ==
    CASE m = "get_capital_flow" -> "analysis_capital_flow"
      [] m = "get_etf_holding" -> "analysis_etf_holding"
      [] m = "get_institutional_holding" -> "analysis_institutional_holding"
      [] m = "get_short_interest" -> "analysis_shortinterest"
      [] m = "get_news" -> "news"
      [] m = "get_bars" -> "bars"
      [] m = "get_bars_crypto" -> "bars_crypto"
      [] m = "get_calendar" -> "bars"
TickerMethods ==
    {"get_capital_flow", "get_etf_holding", "get_institutional_holding",
     "get_short_interest", "get_news", "get_bars", "get_bars_crypto", "get_calendar"}

\* The request of these methods, in the context k2 in which the ticker id
\* was settled
ticker_request_send(k2, m, resp) ==
    IF Raised(k2) THEN k2
    ELSE LET k3 == Request(k2, k2.s.headers, <<TickerEndpoint(m), 0>>, "-", k2.ret,
                           NoData, resp, <<>>)
         IN  IF m \in {"get_bars", "get_bars_crypto", "get_calendar"} /\ resp # "ok"
             THEN Raise(k3, "KeyError")
             ELSE Result(k3, resp)

\* get_capital_flow, get_etf_holding, get_institutional_holding,
\* get_short_interest, get_news, get_bars, get_bars_crypto, get_calendar
ticker_request(k, m, stock, tId, data, resp) ==
    ticker_request_send(resolve_ticker(build_req_headers(k, FALSE, FALSE), stock, tId, data),
                        m, resp)

\* Webull.get_quote: the request, in the context k2 in which the ticker id
\* was settled
get_quote_send(k2, resp) ==
    IF Raised(k2) THEN k2
    ELSE Result(Request(k2, k2.s.headers, <<"quotes", 0>>, "-", k2.ret,
                        NoData, resp, <<>>), resp)

\* Webull.get_quote
get_quote(k, stock, tId, data, resp) ==
    LET k1 == build_req_headers(k, FALSE, FALSE)
    IN  IF stock \in {None, ""} /\ tId \in {None, ""} THEN Raise(k1, "ValueError")
        ELSE get_quote_send(IF stock \notin {None, ""} THEN get_ticker(k1, stock, data)
                            ELSE Result(k1, tId),
                            resp)

\* Webull.get_option_quote: the headers and the request, in the context k1 in
\* which the ticker id was settled
get_option_quote_send(k1, resp) ==
    IF Raised(k1) THEN k1
    ELSE LET k2 == build_req_headers(k1, FALSE, FALSE)
         IN  Result(Request(k2, k2.s.headers, <<"option_quotes", 0>>, "-", k1.ret,
                            NoData, resp, <<>>), resp)

\* Webull.get_option_quote
get_option_quote(k, stock, tId, data, resp) ==
    IF stock \in {None, ""} /\ tId \in {None, ""} THEN Raise(k, "ValueError")
    ELSE get_option_quote_send(IF stock \notin {None, ""} THEN get_ticker(k, stock, data)
                               ELSE Result(k, tId),
                               resp)

\* Webull.get_options: the request, in the context k3 that get_ticker left
get_options_send(k3, resp) ==
    IF Raised(k3) THEN k3
    ELSE LET k4 == Request(k3, k3.s.headers, <<"options", 0>>, "-", k3.ret,
                           NoData, resp, <<>>)
         IN  IF resp # "ok" THEN Raise(k4, "KeyError") ELSE Result(k4, resp)

\* Webull.get_options from "params = {...}" on, in the context k2 in which
\* the expiration date was settled
get_options_ticker(k2, stock, d2, resp) ==
    IF Raised(k2) THEN k2 ELSE get_options_send(get_ticker(k2, stock, d2), resp)

\* Webull.get_options; has_date: expireDate was passed; d1 and d2 answer the
\* two ticker searches, dates the expiration-date request, resp the chain request
get_options(k, stock, has_date, d1, dates, d2, resp) ==
    LET k1 == build_req_headers(k, FALSE, FALSE)
    IN  get_options_ticker(
            IF has_date THEN k1
            ELSE stock_request(k1, "get_options_expiration_dates", stock, d1, dates),
            stock, d2, resp)

\* Webull.alerts_add: the payload and the request, in the context k2 that
\* get_tradable left
alerts_add_send(k2, tradable, resp) ==
    IF Raised(k2) \/ tradable # "ok" THEN Raise(k2, "Exception")
    ELSE LET k3 == Request(k2, k2.s.headers, <<"add_alert", 0>>, "-", "-",
                           NoData, resp, <<>>)
         IN  IF resp # "ok" THEN Raise(k3, "Exception") ELSE Result(k3, "True")

\* Webull.alerts_add: the payload is built inside try/except Exception, so a
\* failed get_tradable leaves data unbound and the request is never reached
alerts_add(k, stock, data, tradable, resp) ==
    alerts_add_send(stock_request(build_req_headers(k, FALSE, FALSE), "get_tradable",
                                  stock, data, tradable),
                    tradable, resp)

\* The keys of jdict['rules'] in run_screener.
RegionRule == "wlas.screener.rule.region"
PriceRule == "wlas.screener.rule.price"
VolumeRule == "wlas.screener.rule.volume"
ChangeRatioRule == "wlas.screener.rule.changeRatio"

\* The rules with every range written under its own name.
screener_rules_by_name(price_lte, price_gte, vol_lte, vol_gte, pct_chg_lte, pct_chg_gte) ==
    [rule \in {RegionRule}
               \cup (IF price_lte # None /\ price_gte # None THEN {PriceRule} ELSE {})
               \cup (IF vol_lte # None /\ vol_gte # None THEN {VolumeRule} ELSE {})
               \cup (IF pct_chg_lte # None /\ pct_chg_gte # None
                     THEN {ChangeRatioRule} ELSE {}) |->
        CASE rule = RegionRule -> "securities.region.name.6"
          [] rule = PriceRule -> "gte=" \o price_gte \o "&lte=" \o price_lte
          [] rule = VolumeRule -> "gte=" \o vol_gte \o "&lte=" \o vol_lte
          [] rule = ChangeRatioRule -> "gte=" \o pct_chg_gte \o "&lte=" \o pct_chg_lte]

\* jdict['rules'] of Webull.run_screener; an argument is None or the str() of
\* the number passed
screener_rules(price_lte, price_gte, vol_lte, vol_gte, pct_chg_lte, pct_chg_gte) ==
    [rule \in {RegionRule}
               \cup (IF price_lte # None /\ price_gte # None THEN {PriceRule} ELSE {})
               \cup (IF vol_lte # None /\ vol_gte # None THEN {VolumeRule} ELSE {})
               \cup (IF pct_chg_lte # None /\ pct_chg_gte # None
                     THEN {ChangeRatioRule} ELSE {}) |->
        CASE rule = RegionRule -> "securities.region.name.6"
          [] rule = PriceRule -> "gte=" \o price_lte \o "&lte=" \o price_gte
          [] rule = VolumeRule -> "gte=" \o vol_lte \o "&lte=" \o vol_gte
          [] rule = ChangeRatioRule -> "gte=" \o pct_chg_lte \o "&lte=" \o pct_chg_gte]

\* Webull.run_screener: the request carries no headers; ranges is the
\* sequence of its arguments price_lte, price_gte, vol_lte, vol_gte,
\* pct_chg_lte, pct_chg_gte
run_screener(k, ranges, resp) ==
    Result(Request(k, NoHeaders, <<"screener", 0>>, "-", "-",
                   [rules |-> screener_rules(ranges[1], ranges[2], ranges[3], ranges[4],
                                             ranges[5], ranges[6])],
                   resp, <<>>), resp)

\* ------------------------------------------------------- account
\* Webull.get_account / PaperWebull.get_account
get_account(k, resp) ==
    LET k1 == build_req_headers(k, FALSE, FALSE)
        ep == IF k.s.variant = "PaperWebull" THEN "paper_account" ELSE "account"
    IN  Result(Request(k1, k1.s.headers, <<ep, 0>>, k1.s.account_id, "-", NoData, resp, <<>>),
               resp)

\* get_positions, get_portfolio, get_current_orders: get_account, then one key
\* of the answer, which an error body does not hold
account_part(k, resp) ==
    IF resp # "ok" THEN Raise(get_account(k, resp), "KeyError") ELSE get_account(k, resp)

\* Webull.get_activities
get_activities(k, resp) ==
    LET k1 == build_req_headers(k, TRUE, TRUE)
    IN  Result(Request(k1, k1.s.headers, <<"account_activities", 0>>, k1.s.account_id, "-",
                       NoData, resp, <<>>), resp)

\* Webull.get_history_orders / PaperWebull.get_history_orders
get_history_orders(k, resp) ==
    LET k1 == build_req_headers(k, TRUE, TRUE)
        ep == IF k.s.variant = "PaperWebull" THEN "paper_orders" ELSE "orders"
    IN  Result(Request(k1, k1.s.headers, <<ep, 0>>, k1.s.account_id, "-", NoData, resp, <<>>),
               resp)

\* Webull.get_dividends
get_dividends(k, resp) ==
    LET k1 == build_req_headers(k, FALSE, FALSE)
    IN  Result(Request(k1, k1.s.headers, <<"dividends", 0>>, k1.s.account_id, "-",
                       NoData, resp, <<>>), resp)

\* ------------------------------------------------------- orders
OrderTypes == {"MKT", "LMT", "STP", "STP LMT", "STP TRAIL"}
ORTH == "outsideRegularTradingHour"

\* The payload of an order request: its orderType, which of the price keys
\* and of outsideRegularTradingHour it holds, and the value of the latter.
OrderData(orderType, keys, orth) ==
    [orderType |-> orderType, keys |-> keys, outsideRegularTradingHour |-> orth]

\* The data dict of Webull.place_order
place_order_data(orderType, outsideRegularTradingHour) ==
    OrderData(orderType,
              {ORTH} \cup
              CASE orderType = "MKT" -> {}
                [] orderType = "LMT" -> {"lmtPrice"}
                [] orderType = "STP" -> {"auxPrice"}
                [] orderType = "STP LMT" -> {"lmtPrice", "auxPrice"}
                [] orderType = "STP TRAIL" -> {"trailingStopStep", "trailingType"}
                [] OTHER -> {},
              IF orderType = "MKT" THEN FALSE ELSE outsideRegularTradingHour)

\* Webull.place_order from build_req_headers on, in the context k1 in which
\* the ticker id was settled
Webull_place_order_send(k1, orderType, outsideRegularTradingHour, has_stp, resp) ==
    IF Raised(k1) THEN k1
    ELSE LET k2 == build_req_headers(k1, TRUE, TRUE)
         IN  IF orderType \in {"STP", "STP LMT"} /\ ~has_stp THEN Raise(k2, "TypeError")
             ELSE Result(Request(k2, k2.s.headers, <<"place_orders", 0>>,
                                 k2.s.account_id, k1.ret,
                                 place_order_data(orderType, outsideRegularTradingHour),
                                 resp, <<>>), resp)

\* Webull.place_order; has_stp: stpPrice was passed (float(None) raises)
Webull_place_order(k, stock, tId, orderType, outsideRegularTradingHour, has_stp, data, resp) ==
    Webull_place_order_send(resolve_ticker(k, stock, tId, data), orderType,
                            outsideRegularTradingHour, has_stp, resp)

\* The paper payload with the price fields of the live one.
paper_place_order_data_by_type(orderType, outsideRegularTradingHour) ==
    OrderData(orderType,
              {ORTH} \cup
              CASE orderType \in {"LMT", "STP LMT"} -> {"lmtPrice"}
                [] OTHER -> {},
              IF orderType = "MKT" THEN FALSE ELSE outsideRegularTradingHour)

\* The data dict of PaperWebull.place_order
paper_place_order_data(orderType, outsideRegularTradingHour) ==
    OrderData(orderType, {ORTH, "lmtPrice"},
              IF orderType = "MKT" THEN FALSE ELSE outsideRegularTradingHour)

\* PaperWebull.place_order from build_req_headers on, in the context k1 in
\* which the ticker id was settled
PaperWebull_place_order_send(k1, orderType, outsideRegularTradingHour, resp) ==
    IF Raised(k1) THEN k1
    ELSE LET k2 == build_req_headers(k1, TRUE, TRUE)
         IN  Result(Request(k2, k2.s.headers, <<"paper_place_order", 0>>,
                            k2.s.account_id, k1.ret,
                            paper_place_order_data(orderType, outsideRegularTradingHour),
                            resp, <<>>), resp)

\* PaperWebull.place_order
PaperWebull_place_order(k, stock, tId, orderType, outsideRegularTradingHour, data, resp) ==
    PaperWebull_place_order_send(resolve_ticker(k, stock, tId, data), orderType,
                                 outsideRegularTradingHour, resp)

\* self.place_order(...), by the class of self
place_order(k, stock, tId, orderType, outsideRegularTradingHour, has_stp, data, resp) ==
    IF k.s.variant = "PaperWebull"
    THEN PaperWebull_place_order(k, stock, tId, orderType, outsideRegularTradingHour, data, resp)
    ELSE Webull_place_order(k, stock, tId, orderType, outsideRegularTradingHour, has_stp,
                            data, resp)

\* The data dict of Webull.place_order_option; has_lmt, has_stp: lmtPrice,
\* stpPrice were passed and are not zero
place_order_option_data(orderType, has_lmt, has_stp) ==
    OrderData(orderType,
              IF orderType = "LMT" /\ has_lmt THEN {"lmtPrice"}
              ELSE IF orderType = "STP" /\ has_stp THEN {"auxPrice"}
              ELSE IF orderType = "STP LMT" /\ has_lmt /\ has_stp
                   THEN {"lmtPrice", "auxPrice"}
              ELSE {},
              FALSE)

\* Webull.place_order_option; status_ok: the answer's status code is 200
place_order_option(k, has_id, orderType, has_lmt, has_stp, resp) ==
    LET k1 == build_req_headers(k, TRUE, TRUE)
    IN  IF ~has_id THEN Raise(k1, "TypeError")
        ELSE LET k2 == Request(k1, k1.s.headers, <<"place_option_orders", 0>>,
                               k1.s.account_id, "-",
                               place_order_option_data(orderType, has_lmt, has_stp),
                               resp, <<>>)
             IN  IF resp # "ok" THEN Raise(k2, "Exception") ELSE Result(k2, resp)

\* Webull.modify_order_option
modify_order_option(k, has_order, resp) ==
    LET k1 == build_req_headers(k, TRUE, TRUE)
    IN  IF ~has_order THEN Raise(k1, "TypeError")
        ELSE LET k2 == Request(k1, k1.s.headers, <<"replace_option_orders", 0>>,
                               k1.s.account_id, "-", OrderData("-", {}, FALSE), resp, <<>>)
             IN  IF resp # "ok" THEN Raise(k2, "Exception") ELSE Result(k2, "True")

\* Webull.place_order_crypto from build_req_headers on, in the context k1 in
\* which the ticker id was settled
place_order_crypto_send(k1, orderType, outsideRegularTradingHour, resp) ==
    IF Raised(k1) THEN k1
    ELSE LET k2 == build_req_headers(k1, TRUE, TRUE)
         IN  Result(Request(k2, k2.s.headers, <<"place_orders", 0>>,
                            k2.s.account_id, k1.ret,
                            OrderData(orderType, {ORTH, "lmtPrice"},
                                      outsideRegularTradingHour),
                            resp, <<>>), resp)

\* Webull.place_order_crypto
place_order_crypto(k, stock, tId, orderType, outsideRegularTradingHour, data, resp) ==
    place_order_crypto_send(resolve_ticker(k, stock, tId, data), orderType,
                            outsideRegularTradingHour, resp)

\* An order dict as get_current_orders lists it; None: no order was passed.
NoOrder == [orderId |-> None, orderType |-> None, outsideRegularTradingHour |-> FALSE,
            tickerId |-> None]

\* Webull.modify_order: the payload and the request, in the context k2 in
\* which the ticker id was settled
Webull_modify_order_send(k2, modifiedOrderType, modifiedOutsideRegularTradingHour, resp) ==
    IF Raised(k2) THEN k2
    ELSE Result(Request(k2, k2.s.headers, <<"modify_order", 0>>,
                        k2.s.account_id, k2.ret,
                        OrderData(modifiedOrderType, {ORTH, "lmtPrice"},
                                  IF modifiedOrderType = "MKT" THEN FALSE
                                  ELSE modifiedOutsideRegularTradingHour),
                        resp, <<>>), resp)

\* Webull.modify_order; complete: action, price, enforce and quant were all
\* passed; orth_arg is "True", "False" or None
Webull_modify_order(k, order, order_id, stock, tId, complete, orderType, orth_arg, data, resp) ==
    IF order = NoOrder /\ order_id = None THEN Raise(k, "ValueError")
    ELSE LET k1 == build_req_headers(k, TRUE, TRUE)
         IN  IF order = NoOrder /\ (~complete \/ orderType = None \/ orth_arg = None)
             THEN Raise(k1, "TypeError")
             ELSE LET modifiedOrderType ==
                          IF orderType # None THEN orderType ELSE order.orderType
                      modifiedOutsideRegularTradingHour ==
                          IF orth_arg # None THEN orth_arg = "True"
                          ELSE order.outsideRegularTradingHour
                  IN  Webull_modify_order_send(
                          IF tId # None THEN Result(k1, tId)
                          ELSE IF stock # None THEN get_ticker(k1, stock, data)
                          ELSE IF order = NoOrder THEN Raise(k1, "TypeError")
                          ELSE Result(k1, order.tickerId),
                          modifiedOrderType, modifiedOutsideRegularTradingHour, resp)

\* PaperWebull.modify_order; the answer is truthy when its status is below 400
PaperWebull_modify_order(k, order, orderType, outsideRegularTradingHour, resp) ==
    LET k1 == build_req_headers(k, FALSE, FALSE)
    IN  IF order = NoOrder THEN Raise(k1, "TypeError")
        ELSE Result(Request(k1, k1.s.headers, <<"paper_modify_order", 0>>,
                            k1.s.account_id, order.tickerId,
                            OrderData(orderType, {ORTH, "lmtPrice"}, outsideRegularTradingHour),
                            resp, <<>>),
                    IF resp = "ok" THEN "True" ELSE "False")

\* What the cancel endpoints answer: success true, success false, no such key.
CancelAnswers == {"ok", "rejected", "malformed"}

\* cancel_order that asks again when the vendor refuses.
Webull_cancel_order_again(k, order_id, resp) ==
    LET k1 == build_req_headers(k, TRUE, TRUE)
        k2 == Request(k1, k1.s.headers, <<"cancel_order", order_id>>, k1.s.account_id, "-",
                      OrderData("-", {}, FALSE), resp, <<>>)
        k3 == IF resp = "ok" THEN k2
              ELSE Request(k2, k2.s.headers, <<"cancel_order", order_id>>, k2.s.account_id, "-",
                           OrderData("-", {}, FALSE), resp, <<>>)
    IN  CASE resp = "ok" -> Result(k3, "True")
          [] resp = "rejected" -> Result(k3, "False")
          [] OTHER -> Raise(k3, "KeyError")

\* Webull.cancel_order
Webull_cancel_order(k, order_id, resp) ==
    LET k1 == build_req_headers(k, TRUE, TRUE)
        k2 == Request(k1, k1.s.headers, <<"cancel_order", order_id>>, k1.s.account_id, "-",
                      OrderData("-", {}, FALSE), resp, <<>>)
    IN  CASE resp = "ok" -> Result(k2, "True")
          [] resp = "rejected" -> Result(k2, "False")
          [] OTHER -> Raise(k2, "KeyError")

\* PaperWebull.cancel_order
PaperWebull_cancel_order(k, order_id, resp) ==
    LET k1 == build_req_headers(k, FALSE, FALSE)
        k2 == Request(k1, k1.s.headers, <<"paper_cancel_order", order_id>>, k1.s.account_id, "-",
                      OrderData("-", {}, FALSE), resp, <<>>)
    IN  Result(k2, IF resp = "ok" THEN "True" ELSE "False")

\* self.cancel_order(order_id), by the class of self
cancel_order(k, order_id, resp) ==
    IF k.s.variant = "PaperWebull" THEN PaperWebull_cancel_order(k, order_id, resp)
    ELSE Webull_cancel_order(k, order_id, resp)

\* The loop of cancel_all_orders over the answers to its cancel requests,
\* from the i-th on, in the context k that the call before it left: an
\* exception of that call ends the method.
RECURSIVE cancel_each(_, _, _, _)
cancel_each(k, open_orders, answers, i) ==
    IF Raised(k) THEN k
    ELSE IF i > Len(open_orders) THEN Result(k, None)
    ELSE cancel_each(cancel_order(k, open_orders[i], answers[i]), open_orders, answers, i + 1)

\* data['openOrders'] of get_current_orders: in the context k that
\* get_account left, the answer to its request lists open_orders
get_current_orders(k, open_orders) ==
    IF Raised(k) THEN k ELSE [k EXCEPT !.sent[Len(k.sent)].body = open_orders]

\* Webull.cancel_all_orders; account answers get_account, open_orders are
\* the orderId's it lists, and answers[i] answers the cancel request of the
\* i-th of them
cancel_all_orders(k, account, open_orders, answers) ==
    cancel_each(get_current_orders(account_part(k, account), open_orders),
                open_orders, answers, 1)

\* self.get_ticker(stock) n times over, as the legs of an OTOCO payload are
\* built, in the context k that the call before them left (an exception of
\* that call ends the method); ok_lookups of them find the ticker and the
\* next one does not
RECURSIVE leg_tickers(_, _, _, _)
leg_tickers(k, stock, n, ok_lookups) ==
    IF Raised(k) \/ n = 0 THEN k
    ELSE leg_tickers(get_ticker(k, stock,
                         IF ok_lookups > 0
                         THEN <<[symbol |-> stock, disSymbol |-> stock, tickerId |-> "tid1"]>>
                         ELSE <<>>),
                     stock, n - 1, ok_lookups - 1)

\* Webull.place_order_otoco: the place request, in the context k4 that the
\* tickers of the second payload left
place_order_otoco_send(k4, resp) ==
    IF Raised(k4) THEN k4
    ELSE Result(Request(k4, k4.s.headers, <<"place_otoco_orders", 0>>,
                        k4.s.account_id, k4.ret,
                        OrderData("OTOCO", {}, FALSE), resp, <<>>),
                resp)

\* Webull.place_order_otoco from the check request on, in the context k2 that
\* the tickers of the first payload left
place_order_otoco_check(k2, stock, ok_lookups, check, resp) ==
    IF Raised(k2) THEN k2
    ELSE LET k3 == Request(k2, k2.s.headers, <<"check_otoco_orders", 0>>,
                           k2.s.account_id, k2.ret, OrderData("OTOCO", {}, FALSE),
                           check, <<>>)
         IN  CASE check = "malformed" -> Raise(k3, "KeyError")
               [] check = "unexplained" -> Raise(k3, "KeyError")
               [] check = "refused" -> Result(k3, "False")
               [] OTHER -> place_order_otoco_send(
                               leg_tickers(k3, stock, 3, ok_lookups - 3), resp)

\* Webull.place_order_otoco; check is the answer to the check request:
\* "forward" (truthy), "refused" (falsy, with the checkResultList entry that
\* the method prints), "unexplained" (falsy, without it) or "malformed" (no
\* such key)
place_order_otoco(k, stock, ok_lookups, check, resp) ==
    place_order_otoco_check(leg_tickers(build_req_headers(k, FALSE, TRUE), stock, 3,
                                        ok_lookups),
                            stock, ok_lookups, check, resp)

\* Webull.modify_order_otoco: the request, in the context k2 that the
\* tickers of the payload left
modify_order_otoco_send(k2, resp) ==
    IF Raised(k2) THEN k2
    ELSE Result(Request(k2, k2.s.headers, <<"modify_otoco_orders", 0>>,
                        k2.s.account_id, k2.ret, OrderData("OTOCO", {}, FALSE),
                        resp, <<>>), resp)

\* Webull.modify_order_otoco
modify_order_otoco(k, stock, ok_lookups, resp) ==
    modify_order_otoco_send(leg_tickers(build_req_headers(k, FALSE, TRUE), stock, 3,
                                        ok_lookups),
                            resp)

\* Webull.cancel_order_otoco
cancel_order_otoco(k, resp) ==
    LET k1 == build_req_headers(k, TRUE, TRUE)
    IN  Result(Request(k1, k1.s.headers, <<"cancel_otoco_orders", 0>>, k1.s.account_id, "-",
                       OrderData("OTOCO", {}, FALSE), resp, <<>>), resp)

\* ------------------------------------------------------- bars
\* str.isdigit-like: float(value) and int(value) accept the string
IsNumber(value) == \E n \in 0..MaxNumber : ToString(n) = value
\* float(value), int(value) of a string they accept
Number(value) == CHOOSE n \in 0..MaxNumber : ToString(n) = value

\* "row = row.split(',')" has been done: a row is the sequence of its fields,
\* field j of the code being row[j + 1] here.
\* row = ['0' if value == 'null' else value for value in row]
null_as_zero(row) == [j \in DOMAIN row |-> IF row[j] = "null" THEN "0" ELSE row[j]]

\* The fields of a row in the order the code reads them: open, high, low,
\* close, volume, vwap as the data dict is built, then the timestamp.
ReadOrder == <<1, 3, 4, 2, 6, 7, 0>>

\* The exception of the first field that cannot be read, None where all can:
\* row[j] of a missing field raises IndexError, float() and int() of a string
\* that is no number raise ValueError.
RECURSIVE row_error(_, _)
row_error(row, n) ==
    IF n > Len(ReadOrder) THEN None
    ELSE IF ReadOrder[n] + 1 > Len(row) THEN "IndexError"
    ELSE IF ~IsNumber(row[ReadOrder[n] + 1]) THEN "ValueError"
    ELSE row_error(row, n + 1)

\* The record the loop body builds from a row, with the index label it is
\* stored under.
bar(row) ==
    [timestamp |-> Number(row[1]),
     open |-> Number(row[2]), high |-> Number(row[4]), low |-> Number(row[5]),
     close |-> Number(row[3]), volume |-> Number(row[7]), vwap |-> Number(row[8])]

\* df.loc[label] = data: the row with that label is set where the frame has
\* one, and a row is added at the end where it has none.
df_loc_set(df, data) ==
    IF \E i \in DOMAIN df : df[i].timestamp = data.timestamp
    THEN [i \in DOMAIN df |-> IF df[i].timestamp = data.timestamp THEN data ELSE df[i]]
    ELSE Append(df, data)

\* The loop "for row in result[0]['data']" from the i-th row on, with the
\* frame df built so far: the frame in the end, or the exception of a row.
RECURSIVE bars_loop(_, _, _)
bars_loop(rows, i, df) ==
    IF i > Len(rows) THEN [error |-> None, df |-> df]
    ELSE IF row_error(null_as_zero(rows[i]), 1) # None
         THEN [error |-> row_error(null_as_zero(rows[i]), 1), df |-> df]
    ELSE bars_loop(rows, i + 1, df_loc_set(df, bar(null_as_zero(rows[i]))))

\* df.iloc[::-1]
Reversed(df) == [i \in DOMAIN df |-> df[Len(df) + 1 - i]]

\* get_bars, get_bars_crypto, get_options_bars from "result = response.json()"
\* on, in the context k that the request left; rows is result[0]['data']
bars_frame(k, rows) ==
    IF Raised(k) THEN k
    ELSE IF bars_loop(rows, 1, <<>>).error # None
         THEN [k EXCEPT !.sent[Len(k.sent)].body = rows,
                        !.ret = bars_loop(rows, 1, <<>>).error]
    ELSE [k EXCEPT !.sent[Len(k.sent)].body = rows,
                   !.ret = "DataFrame",
                   !.val = [kind |-> "DataFrame",
                            rows |-> Reversed(bars_loop(rows, 1, <<>>).df)]]

\* Webull.get_bars, get_bars_crypto (a ticker id is passed) and
\* get_options_bars (a derivative id is passed); resp answers the request
get_bars(k, m, resp, rows) ==
    bars_frame(IF m = "get_options_bars" THEN plain_request(k, m, resp)
               ELSE ticker_request(k, m, None, "tid2", <<>>, resp),
               rows)

\* ------------------------------------------------------- construction
\* A constructor that starts from an account id.
Init_with_account ==
    /\ variant \in {"Webull", "PaperWebull"}
    /\ account_id \in LiveAccounts
    /\ trade_token = ""
    /\ access_token = ""
    /\ refresh_token = ""
    /\ token_expire = ""
    /\ uuid = ""
    /\ did \in DeviceIds
    /\ zone_var = DefaultZone
    /\ headers = [did |-> did, access_token |-> Absent, t_token |-> Absent,
                  t_time |-> Absent, lzone |-> DefaultZone]
    /\ credential_data = Unset
    /\ files \in {f \in [Paths -> {NoFile} \cup Creds] : f[OtherPath] = NoFile}
    /\ op = "__init__"
    /\ sent = <<>>
    /\ ret = None
    /\ val = Unset

\* Webull.__init__ / PaperWebull.__init__, with _get_did
Init ==
    /\ variant \in {"Webull", "PaperWebull"}
    /\ account_id = ""
    /\ trade_token = ""
    /\ access_token = ""
    /\ refresh_token = ""
    /\ token_expire = ""
    /\ uuid = ""
    /\ did \in DeviceIds
    /\ zone_var = DefaultZone
    /\ headers = [did |-> did, access_token |-> Absent, t_token |-> Absent,
                  t_time |-> Absent, lzone |-> DefaultZone]
    /\ credential_data = Unset
    /\ files \in {f \in [Paths -> {NoFile} \cup Creds] : f[OtherPath] = NoFile}
    /\ op = "__init__"
    /\ sent = <<>>
    /\ ret = None
    /\ val = Unset

\* The credential set in a file that an earlier session of another login wrote.
OtherCred == Cred(NumCreds + 1)

\* Webull.__init__ / PaperWebull.__init__ on a machine where earlier sessions
\* may have left a credential file at either path.
Init_with_files ==
    /\ variant \in {"Webull", "PaperWebull"}
    /\ account_id = ""
    /\ trade_token = ""
    /\ access_token = ""
    /\ refresh_token = ""
    /\ token_expire = ""
    /\ uuid = ""
    /\ did \in DeviceIds
    /\ zone_var = DefaultZone
    /\ headers = [did |-> did, access_token |-> Absent, t_token |-> Absent,
                  t_time |-> Absent, lzone |-> DefaultZone]
    /\ credential_data = Unset
    /\ files \in [Paths -> {NoFile, OtherCred} \cup Creds]
    /\ op = "__init__"
    /\ sent = <<>>
    /\ ret = None
    /\ val = Unset

\* ------------------------------------------------------- actions
\* The answers to an account lookup made inside another method: accepted,
\* refused (the method returns None) and malformed (it raises KeyError).
InnerAccountAnswers(v) ==
    {r \in AccountAnswers(v) : r.kind \in {"ok", "rejected", "empty", "malformed", "errorobj"}}
\* The answer to a request that the call never sends.
Unasked(v) == CHOOSE r \in AccountAnswers(v) : r.kind \in {"rejected", "empty"}

\* The path arguments a caller passes: none (the default) or a path.
PathArgs == {DEFAULT_CREDENTIAL_PATH, ""}

\* credential_login(path) reads a credential file and goes on to look up the account
Readable(path) ==
    files[IF path = "" THEN DEFAULT_CREDENTIAL_PATH ELSE path].uuid # Absent

\* The caller takes the result: the call's request and response objects and
\* its return value are dropped, and the client is ready for the next call.
Caller_continues ==
    /\ op # Idle
    /\ op' = Idle
    /\ sent' = <<>>
    /\ ret' = None
    /\ val' = Unset
    /\ UNCHANGED <<variant, account_id, trade_token, access_token, refresh_token,
                   token_expire, uuid, did, zone_var, headers, credential_data, files>>

Call_get_account_id ==
    Ready /\
    \E r \in AccountAnswers(variant) :
        Return("get_account_id", get_account_id(Call, r))

Call_login ==
    Ready /\
    \E credential_path \in PathArgs, userpass \in BOOLEAN :
    \E ra1 \in IF credential_path # "" /\ Readable(credential_path)
                THEN InnerAccountAnswers(variant) ELSE {Unasked(variant)} :
    \E rl \in IF userpass THEN LoginAnswers ELSE {RejectedBody} :
    \E has_mfa \in IF userpass THEN BOOLEAN ELSE {FALSE} :
    \E ra2 \in IF (userpass /\ HasLoginKeys(rl)) \/ (~userpass /\ Readable(""))
                THEN InnerAccountAnswers(variant) ELSE {Unasked(variant)} :
    \E save_token \in IF userpass /\ HasLoginKeys(rl) THEN BOOLEAN ELSE {FALSE} :
    \E token_path \in IF save_token THEN PathArgs ELSE {""} :
        Return("login", login(Call, userpass, has_mfa, credential_path, save_token,
                              token_path, ra1, rl, ra2))

\* credential_login with the refresh flag from Flags
credential_login_calls(Flags) ==
    Ready /\
    \E path \in PathArgs :
    \E ra \in IF Readable(path) THEN InnerAccountAnswers(variant) ELSE {Unasked(variant)} :
    \E refresh \in IF Readable(path) /\ ra.kind \in {"ok", "rejected", "empty"}
                    THEN Flags ELSE {FALSE} :
    \E rr \in IF refresh THEN RefreshAnswers ELSE {RejectedBody} :
        Return("credential_login", credential_login(Call, path, refresh, ra, rr))

Call_credential_login == credential_login_calls({FALSE})

Call_save_credential ==
    Ready /\
    \E path \in PathArgs, c \in Creds \cup {Unset} :
        Return("save_credential", save_credential(Call, path, c))

Call_api_login ==
    Ready /\
    \E c \in Creds \cup {EmptyCred}, ra \in AccountAnswers(variant) :
        Return("api_login", api_login(Call, c, ra))

\* refresh_login with the save_token flag from Flags
refresh_login_calls(Flags) ==
    Ready /\
    \E r \in RefreshAnswers :
    \E save_token \in IF r.kind = "cred" /\ r.accessToken # "" THEN Flags ELSE {FALSE} :
    \E token_path \in IF save_token THEN PathArgs ELSE {""} :
        Return("refresh_login", refresh_login(Call, save_token, token_path, r))

Call_refresh_login == refresh_login_calls({FALSE})

Call_logout ==
    Ready /\
    \E status \in {"200", "401"} : Return("logout", logout(Call, status))

Call_get_trade_token ==
    Ready /\
    \E t \in TradeTokenAnswers : Return("get_trade_token", get_trade_token(Call, t))

Call_trade_prompt ==
    Ready /\
    \E t \in TradeTokenAnswers : Return("trade_prompt", get_trade_token(Call, t))

Call_login_prompt ==
    Ready /\
    \E userpass \in BOOLEAN :
    \E rl \in IF userpass THEN LoginAnswers ELSE {RejectedBody} :
    \E ra2 \in IF (userpass /\ HasLoginKeys(rl)) \/ (~userpass /\ Readable(""))
                THEN InnerAccountAnswers(variant) ELSE {Unasked(variant)} :
    \E t \in TradeTokenAnswers :
        Return("login_prompt", login_prompt(Call, userpass, Unasked(variant), rl, ra2, t))

Call_is_logged_in ==
    Ready /\
    \E ra \in AccountAnswers(variant) : Return("is_logged_in", is_logged_in(Call, ra))

Call_mfa ==
    Ready /\
    \E m \in {"get_mfa", "check_mfa", "check_security"}, resp \in {"ok", "rejected"} :
        Return(m, stored_headers_request(Call, m, resp))

Call_get_account_type ==
    Ready /\
    \E is_email \in BOOLEAN : Return("get_account_type", get_account_type(Call, is_email))

Call_get_security ==
    Ready /\
    \E m \in {"get_security", "next_security"}, first \in {"data", "empty"} :
    \E second \in IF first = "empty" THEN {"data", "empty"} ELSE {"data"} :
        Return(m, get_security(Call, m, first, second))

\* The answers of the vendor to a request whose body the client hands on:
\* the body asked for, or an error body.
Answers == {"ok", "rejected"}
\* The answer to a request the call never sends.
NoAnswer == "ok"

\* What the ticker search answers for a symbol: nothing, or the symbol's item.
TickerData(stock) ==
    IF stock \in Symbols
    THEN {<<>>, <<[symbol |-> stock, disSymbol |-> stock, tickerId |-> "tid1"]>>}
    ELSE {<<>>}
\* The (stock, tId) arguments a caller passes: neither, a symbol, a ticker id.
TickerArgs == {<<None, None>>, <<"AAPL", None>>, <<None, "tid2">>}
\* The answers to the ticker search of a call with these arguments that
\* settles the ticker id by "tId first".
LookupData(stock, tId) == IF tId = None THEN TickerData(stock) ELSE {<<>>}
\* The call with these arguments and this search answer goes on to its request.
Settled(stock, tId, data) == tId # None \/ (stock \in Symbols /\ data # <<>>)
\* The answers to the request of a call that may not get that far.
AnswersIf(reached) == IF reached THEN Answers ELSE {NoAnswer}

Call_plain_request ==
    Ready /\
    \E m \in PlainMethods(variant), resp \in Answers :
        Return(m, plain_request(Call, m, resp))

Call_stock_request ==
    Ready /\
    \E m \in StockMethods, data \in TickerData("AAPL") :
    \E resp \in AnswersIf(data # <<>>) :
        Return(m, stock_request(Call, m, "AAPL", data, resp))

Call_ticker_request ==
    Ready /\
    \E m \in TickerMethods, a \in TickerArgs :
    \E data \in LookupData(a[1], a[2]) :
    \E resp \in AnswersIf(Settled(a[1], a[2], data)) :
        Return(m, ticker_request(Call, m, a[1], a[2], data, resp))

Call_get_ticker ==
    Ready /\
    \E stock \in StockArgs :
    \E data \in TickerData(stock) :
        Return("get_ticker", get_ticker(Call, stock, data))

Call_get_quote ==
    Ready /\
    \E m \in {"get_quote", "get_option_quote"}, a \in TickerArgs :
    \E data \in TickerData(a[1]) :
    \E resp \in AnswersIf(Settled(a[1], a[2], data)) :
        Return(m, IF m = "get_quote" THEN get_quote(Call, a[1], a[2], data, resp)
                  ELSE get_option_quote(Call, a[1], a[2], data, resp))

Call_get_options ==
    Ready /\
    \E m \in {"get_options", "get_options_by_strike_and_expire_date"},
       has_date \in BOOLEAN :
    \E d1 \in IF has_date THEN {<<>>} ELSE TickerData("AAPL") :
    \E dates \in AnswersIf(~has_date /\ d1 # <<>>) :
    \E d2 \in IF ~has_date /\ (d1 = <<>> \/ dates # "ok") THEN {<<>>} ELSE TickerData("AAPL") :
    \E resp \in AnswersIf(d2 # <<>>) :
        Return(m, get_options(Call, "AAPL", has_date, d1, dates, d2, resp))

Call_alerts_add ==
    Ready /\
    \E data \in TickerData("AAPL") :
    \E tradable \in AnswersIf(data # <<>>) :
    \E resp \in AnswersIf(data # <<>> /\ tradable = "ok") :
        Return("alerts_add", alerts_add(Call, "AAPL", data, tradable, resp))

\* run_screener() with no range passed
NoRanges == <<None, None, None, None, None, None>>

Call_run_screener ==
    Ready /\
    \E resp \in Answers : Return("run_screener", run_screener(Call, NoRanges, resp))

Call_get_account ==
    Ready /\
    \E resp \in Answers : Return("get_account", get_account(Call, resp))

Call_account_part ==
    Ready /\
    \E m \in {"get_positions", "get_portfolio", "get_current_orders"}, resp \in Answers :
        Return(m, account_part(Call, resp))

Call_account_request ==
    Ready /\
    \E m \in {"get_activities", "get_history_orders", "get_dividends"}, resp \in Answers :
        Return(m, CASE m = "get_activities" -> get_activities(Call, resp)
                    [] m = "get_history_orders" -> get_history_orders(Call, resp)
                    [] OTHER -> get_dividends(Call, resp))

\* place_order with order types from Types and extended-hours flags from Flags
place_order_calls(Types, Flags) ==
    Ready /\
    \E a \in TickerArgs :
    \E data \in LookupData(a[1], a[2]) :
    \E orderType \in IF Settled(a[1], a[2], data) THEN Types ELSE {"LMT"} :
    \E outsideRegularTradingHour \in IF Settled(a[1], a[2], data) THEN Flags ELSE {TRUE} :
    \E has_stp \in IF variant = "Webull" /\ orderType \in {"STP", "STP LMT"}
                   THEN BOOLEAN ELSE {TRUE} :
    \E resp \in AnswersIf(Settled(a[1], a[2], data)) :
        Return("place_order", place_order(Call, a[1], a[2], orderType,
                                          outsideRegularTradingHour, has_stp, data, resp))

Call_place_order == place_order_calls({"LMT", "STP"}, {TRUE})

\* place_order_option with order types from Types
place_order_option_calls(Types, Prices) ==
    Ready /\
    \E has_id \in BOOLEAN :
    \E orderType \in IF has_id THEN Types ELSE {"LMT"} :
    \E has_lmt, has_stp \in IF has_id THEN Prices ELSE {TRUE} :
    \E resp \in AnswersIf(has_id) :
        Return("place_order_option",
               place_order_option(Call, has_id, orderType, has_lmt, has_stp, resp))

Call_place_order_option == place_order_option_calls({"LMT"}, {TRUE})

Call_modify_order_option ==
    Ready /\
    \E has_order \in BOOLEAN :
    \E resp \in AnswersIf(has_order) :
        Return("modify_order_option", modify_order_option(Call, has_order, resp))

Call_place_order_crypto ==
    Ready /\
    \E a \in TickerArgs :
    \E data \in LookupData(a[1], a[2]) :
    \E resp \in AnswersIf(Settled(a[1], a[2], data)) :
        Return("place_order_crypto",
               place_order_crypto(Call, a[1], a[2], "LMT", FALSE, data, resp))

\* The order a caller passes to modify_order.
AnOrder == [orderId |-> "o1", orderType |-> "LMT", outsideRegularTradingHour |-> TRUE,
            tickerId |-> "tid1"]

Call_modify_order ==
    /\ Ready
    /\ variant = "Webull"
    /\ \E order \in {AnOrder, NoOrder} :
       \E order_id \in IF order = NoOrder THEN {None, "o1"} ELSE {None} :
       \E complete \in IF order = NoOrder /\ order_id # None THEN BOOLEAN ELSE {FALSE} :
       \E a \in IF order = NoOrder /\ order_id = None THEN {<<None, None>>} ELSE TickerArgs :
       \E data \in LookupData(a[1], a[2]) :
       \E resp \in AnswersIf(order_id # None \/ order # NoOrder) :
           Return("modify_order",
                  Webull_modify_order(Call, order, order_id, a[1], a[2], complete,
                                      IF complete THEN "LMT" ELSE None,
                                      IF complete THEN "True" ELSE None, data, resp))

Call_paper_modify_order ==
    /\ Ready
    /\ variant = "PaperWebull"
    /\ \E order \in {AnOrder, NoOrder} :
       \E resp \in AnswersIf(order # NoOrder) :
           Return("modify_order", PaperWebull_modify_order(Call, order, "LMT", TRUE, resp))

\* What the cancel endpoint of this client answers.
CancelAnswersOf(v) == IF v = "PaperWebull" THEN Answers ELSE CancelAnswers

Call_cancel_order ==
    Ready /\
    \E resp \in CancelAnswersOf(variant) :
        Return("cancel_order", cancel_order(Call, "o1", resp))

\* The runs of answers to the cancel requests of cancel_all_orders when the
\* account lists n orders: the loop ends at the first answer that raises.
RECURSIVE CancelRuns(_, _)
CancelRuns(v, n) ==
    IF n = 0 THEN {<<>>}
    ELSE {<<r>> \o run : r \in CancelAnswersOf(v) \ {"malformed"}, run \in CancelRuns(v, n - 1)}
         \cup {<<r>> : r \in CancelAnswersOf(v) \cap {"malformed"}}

\* The orderId's of n open orders.
OpenOrders(n) == [i \in 1..n |-> "o" \o ToString(i)]

Call_cancel_all_orders ==
    Ready /\
    \E account \in Answers :
    \E n \in IF account = "ok" THEN 0..MaxOrders ELSE {0} :
    \E answers \in CancelRuns(variant, n) :
        Return("cancel_all_orders",
               cancel_all_orders(Call, account, OpenOrders(n), answers))

Call_place_order_otoco ==
    Ready /\
    \E ok_lookups \in {0, 1, 2, 3, 4, 5, 6} :
    \E check \in IF ok_lookups = 3 THEN {"refused", "unexplained", "malformed", "forward"}
                 ELSE IF ok_lookups > 3 THEN {"forward"} ELSE {"refused"} :
    \E resp \in AnswersIf(ok_lookups = 6) :
        Return("place_order_otoco", place_order_otoco(Call, "AAPL", ok_lookups, check, resp))

Call_modify_order_otoco ==
    Ready /\
    \E ok_lookups \in {0, 1, 2, 3} :
    \E resp \in AnswersIf(ok_lookups = 3) :
        Return("modify_order_otoco", modify_order_otoco(Call, "AAPL", ok_lookups, resp))

Call_cancel_order_otoco ==
    Ready /\
    \E resp \in Answers : Return("cancel_order_otoco", cancel_order_otoco(Call, resp))

Next ==
    \/ Caller_continues
    \/ Call_get_account_id
    \/ Call_login
    \/ Call_credential_login
    \/ Call_save_credential
    \/ Call_api_login
    \/ Call_refresh_login
    \/ Call_logout
    \/ Call_get_trade_token
    \/ Call_trade_prompt
    \/ Call_login_prompt
    \/ Call_is_logged_in
    \/ Call_mfa
    \/ Call_get_account_type
    \/ Call_get_security
    \/ Call_plain_request
    \/ Call_stock_request
    \/ Call_ticker_request
    \/ Call_get_ticker
    \/ Call_get_quote
    \/ Call_get_options
    \/ Call_alerts_add
    \/ Call_run_screener
    \/ Call_get_account
    \/ Call_account_part
    \/ Call_account_request
    \/ Call_place_order
    \/ Call_place_order_option
    \/ Call_modify_order_option
    \/ Call_place_order_crypto
    \/ Call_modify_order
    \/ Call_paper_modify_order
    \/ Call_cancel_order
    \/ Call_cancel_all_orders
    \/ Call_place_order_otoco
    \/ Call_modify_order_otoco
    \/ Call_cancel_order_otoco

Spec == Init /\ [][Next]_vars

\* ------------------------------------------------------- order payloads
\* The client with its order-placement calls alone, over every order type,
\* either extended-hours flag and prices passed or not.
Place_order == place_order_calls(OrderTypes, BOOLEAN)
Place_order_option == place_order_option_calls(OrderTypes, BOOLEAN)

\* The orders a caller passes to modify_order: limit and market orders, with
\* either extended-hours flag.
SomeOrders ==
    {[AnOrder EXCEPT !.orderType = t, !.outsideRegularTradingHour = f] :
        t \in {"LMT", "MKT"}, f \in BOOLEAN}

\* Webull.modify_order of an order, with the order type and the
\* extended-hours flag passed or left out
Modify_order ==
    /\ Ready
    /\ variant = "Webull"
    /\ \E order \in SomeOrders, orderType \in {None, "LMT", "MKT"},
          orth_arg \in {None, "True", "False"}, resp \in Answers :
           Return("modify_order",
                  Webull_modify_order(Call, order, None, None, None, FALSE,
                                      orderType, orth_arg, <<>>, resp))

\* PaperWebull.modify_order of an order, with any order type and flag
Paper_modify_order ==
    /\ Ready
    /\ variant = "PaperWebull"
    /\ \E order \in SomeOrders, orderType \in {"LMT", "MKT"},
          outsideRegularTradingHour \in BOOLEAN, resp \in Answers :
           Return("modify_order",
                  PaperWebull_modify_order(Call, order, orderType,
                                           outsideRegularTradingHour, resp))

NextOrders ==
    \/ Caller_continues
    \/ Place_order
    \/ Place_order_option
    \/ Modify_order
    \/ Paper_modify_order

SpecOrders == Init /\ [][NextOrders]_vars

\* ------------------------------------------------------- ticker searches
\* The vendor's answers to a ticker search: lists of up to MaxData items.
RECURSIVE TickerLists(_)
TickerLists(n) ==
    IF n = 0 THEN {<<>>}
    ELSE LET shorter == TickerLists(n - 1)
         IN  shorter \cup {Append(l, item) : l \in {x \in shorter : Len(x) = n - 1},
                                            item \in TickerItems(n)}

\* The client with get_ticker alone, over every stock argument and answer.
Lookup_ticker ==
    Ready /\
    \E stock \in StockArgs :
    \E data \in IF stock \in Symbols THEN TickerLists(MaxData) ELSE {<<>>} :
        Return("get_ticker", get_ticker(Call, stock, data))

NextTicker ==
    \/ Caller_continues
    \/ Lookup_ticker

SpecTicker == Init /\ [][NextTicker]_vars

\* ------------------------------------------------------- bars answers
\* The rows of a bars answer: a timestamp (or null) with one of two sets of
\* values or with nulls, a row cut short, and a row with a field that is no
\* number.
BarRows ==
    {<<ts>> \o payload :
        ts \in {"1", "2", "null"},
        payload \in {<<"11", "12", "13", "14", "15", "16", "17">>,
                     <<"21", "22", "23", "24", "25", "26", "27">>,
                     <<"null", "null", "null", "null", "null", "null", "null">>}}
    \cup {<<"1", "11", "12">>, <<"1", "11", "12", "x", "14", "15", "16", "17">>}

\* The answers of up to n rows.
RECURSIVE RowLists(_)
RowLists(n) ==
    IF n = 0 THEN {<<>>}
    ELSE RowLists(n - 1)
         \cup {Append(l, row) : l \in {x \in RowLists(n - 1) : Len(x) = n - 1},
                                row \in BarRows}

\* The client with its bars calls alone, over every answer.
Read_bars ==
    Ready /\
    \E m \in {"get_bars", "get_bars_crypto", "get_options_bars"}, resp \in Answers :
    \E rows \in IF resp = "ok" THEN RowLists(MaxRows) ELSE {<<>>} :
        Return(m, get_bars(Call, m, resp, rows))

NextBars ==
    \/ Caller_continues
    \/ Read_bars

SpecBars == Init /\ [][NextBars]_vars

\* ------------------------------------------------------- screener
\* The range arguments a caller passes: each bound left out or given as one
\* of two numbers, written as str() writes them.
ScreenerBounds == {None, "1", "2"}
ScreenerRanges ==
    {<<a, b, c, d, e, f>> : a \in ScreenerBounds, b \in ScreenerBounds,
                            c \in ScreenerBounds, d \in ScreenerBounds,
                            e \in ScreenerBounds, f \in ScreenerBounds}

\* The client with run_screener alone, over every choice of bounds.
Screen ==
    Ready /\
    \E ranges \in ScreenerRanges, resp \in Answers :
        Return("run_screener", run_screener(Call, ranges, resp))

NextScreener ==
    \/ Caller_continues
    \/ Screen

SpecScreener == Init /\ [][NextScreener]_vars

\* ------------------------------------------------------- credential files
\* The client with the calls that read and write credential files, every flag
\* of theirs taken both ways.
Credential_login == credential_login_calls(BOOLEAN)

Refresh_login == refresh_login_calls(BOOLEAN)

NextCredentials ==
    \/ Caller_continues
    \/ Call_login
    \/ Credential_login
    \/ Call_save_credential
    \/ Call_api_login
    \/ Refresh_login

SpecCredentials == Init /\ [][NextCredentials]_vars

\* ------------------------------------------------------- restored sessions
\* login() with no username and no password, with and without a
\* credential_path.
Restore_login ==
    Ready /\
    \E credential_path \in Paths \cup {""} :
    \E ra1 \in IF credential_path # "" /\ Readable(credential_path)
                THEN InnerAccountAnswers(variant) ELSE {Unasked(variant)} :
    \E ra2 \in IF Readable("") THEN InnerAccountAnswers(variant) ELSE {Unasked(variant)} :
        Return("login", login(Call, FALSE, FALSE, credential_path, FALSE, "",
                              ra1, RejectedBody, ra2))

\* credential_login(path) for any path
Restore_credential_login ==
    Ready /\
    \E path \in Paths \cup {""} :
    \E ra \in IF Readable(path) THEN InnerAccountAnswers(variant) ELSE {Unasked(variant)} :
        Return("credential_login", credential_login(Call, path, FALSE, ra, RejectedBody))

NextRestore ==
    \/ Caller_continues
    \/ Restore_login
    \/ Restore_credential_login

SpecRestore == Init_with_files /\ [][NextRestore]_vars

\* ------------------------------------------------------- symbol and ticker id
\* The (stock, tId) arguments a caller passes: neither, a symbol, a ticker
\* id, or both.
SymbolAndIdArgs == TickerArgs \cup {<<"AAPL", "tid2">>}

\* get_quote and get_option_quote, which search the ticker "if stock:"
Quote_of ==
    Ready /\
    \E m \in {"get_quote", "get_option_quote"}, a \in SymbolAndIdArgs :
    \E data \in TickerData(a[1]) :
    \E resp \in AnswersIf(IF a[1] # None THEN data # <<>> ELSE a[2] # None) :
        Return(m, IF m = "get_quote" THEN get_quote(Call, a[1], a[2], data, resp)
                  ELSE get_option_quote(Call, a[1], a[2], data, resp))

\* The market-data methods that settle the ticker id by "if not tId is None"
Ticker_request_of ==
    Ready /\
    \E m \in TickerMethods, a \in SymbolAndIdArgs :
    \E data \in LookupData(a[1], a[2]) :
    \E resp \in AnswersIf(Settled(a[1], a[2], data)) :
        Return(m, ticker_request(Call, m, a[1], a[2], data, resp))

\* place_order and place_order_crypto of a limit order
Place_order_of ==
    Ready /\
    \E m \in {"place_order", "place_order_crypto"}, a \in SymbolAndIdArgs :
    \E data \in LookupData(a[1], a[2]) :
    \E resp \in AnswersIf(Settled(a[1], a[2], data)) :
        Return(m, IF m = "place_order"
                  THEN place_order(Call, a[1], a[2], "LMT", TRUE, TRUE, data, resp)
                  ELSE place_order_crypto(Call, a[1], a[2], "LMT", FALSE, data, resp))

NextSymbolAndId ==
    \/ Caller_continues
    \/ Quote_of
    \/ Ticker_request_of
    \/ Place_order_of

SpecSymbolAndId == Init /\ [][NextSymbolAndId]_vars

\* ======================================================= claims
\* A call has returned (or raised) and its caller has not yet gone on.
Returned == op \notin {Idle, "__init__"}
\* ... and it returned normally.
ReturnedNormally == Returned /\ ret \notin Exceptions

\* The ticker searches among the requests of the call.
Searches == {i \in 1..Len(sent) : sent[i].ep = "stock_id"}

\* The methods whose code sends one request and calls no other method that
\* sends one.
SingleRequestMethods ==
    {"get_account_id", "is_logged_in", "api_login", "refresh_login", "logout",
     "get_trade_token", "trade_prompt", "get_mfa", "check_mfa", "check_security",
     "get_ticker", "run_screener", "get_account", "get_positions", "get_portfolio",
     "get_current_orders", "get_activities", "get_history_orders", "get_dividends",
     "place_order_option", "modify_order_option", "cancel_order",
     "cancel_order_otoco"}
    \cup PlainMethods("PaperWebull")
\* The methods that take a symbol or a ticker id and search the ticker when
\* they are given the symbol alone, before their own request.
SearchFirstMethods ==
    TickerMethods \cup {"get_quote", "get_option_quote", "place_order",
                        "place_order_crypto", "modify_order"}

\* C1 (as stated, for the calls that return normally and send anything): a
\* call of a public method sends exactly one HTTP request.
C1_one_request_per_call == (ReturnedNormally /\ sent # <<>>) => Len(sent) = 1

\* C1 (amended): a call that returns normally has sent exactly one request if
\* its method calls no other request-sending method; none for save_credential
\* and get_account_type; one more than its ticker searches (at most one) for
\* the methods that take a symbol or a ticker id, so place_order with a symbol
\* sends 2; 2 for get_tradable, get_analysis, get_financials and
\* get_options_expiration_dates; 3 for alerts_add; 2 or 4 for get_options;
\* 4 (check refused) or 8 for place_order_otoco; 4 for modify_order_otoco; 1
\* plus one per open order for cancel_all_orders; 2 for get_security and
\* next_security when the first answer is empty and 1 otherwise; 0 or 1 for
\* credential_login without refresh, up to 3 for login and login_prompt.
C1_request_counts ==
    ReturnedNormally =>
        CASE op \in {"save_credential", "get_account_type"} -> Len(sent) = 0
          [] op = "modify_order" /\ variant = "PaperWebull" -> Len(sent) = 1
          [] op \in SingleRequestMethods -> Len(sent) = 1
          [] op \in SearchFirstMethods ->
                /\ Len(sent) = 1 + Cardinality(Searches)
                /\ Searches \subseteq {1}
          [] op \in StockMethods -> Len(sent) = 2 /\ Searches = {1}
          [] op = "alerts_add" -> Len(sent) = 3
          [] op \in {"get_options", "get_options_by_strike_and_expire_date"} ->
                Len(sent) \in {2, 4}
          [] op = "place_order_otoco" ->
                /\ Len(sent) \in {4, 8}
                /\ Len(sent) = 4 <=> sent[4].resp = "refused"
          [] op = "modify_order_otoco" -> Len(sent) = 4
          [] op = "cancel_all_orders" ->
                /\ Len(sent) \in 1..(1 + MaxOrders)
                /\ \A i \in 2..Len(sent) : sent[i].ep \in {"cancel_order", "paper_cancel_order"}
          [] op \in {"get_security", "next_security"} ->
                Len(sent) = IF sent[1].resp = "empty" THEN 2 ELSE 1
          [] op = "credential_login" -> Len(sent) \in 0..1
          [] op = "login" -> Len(sent) \in 0..3
          [] op = "login_prompt" -> Len(sent) \in 1..3
          [] OTHER -> FALSE

\* place_order was called with a symbol and both its requests were answered.
C1_witness ==
    /\ op = "place_order" /\ ret = "ok"
    /\ Len(sent) = 2
    /\ sent[1].ep = "stock_id"
    /\ sent[2].ep \in {"place_orders", "paper_place_order"}

\* The endpoint functions that place, modify or cancel an order.
OrderEndpoints ==
    {"place_orders", "paper_place_order", "modify_order", "paper_modify_order",
     "cancel_order", "paper_cancel_order", "place_option_orders",
     "replace_option_orders", "place_otoco_orders", "modify_otoco_orders",
     "cancel_otoco_orders"}

\* C2 (for a live client that holds a trade token): every order-affecting
\* request of a call carries a t_token header equal to the session's trade
\* token.
C2_orders_carry_trade_token ==
    \A i \in 1..Len(sent) :
        (variant = "Webull" /\ sent[i].ep \in OrderEndpoints /\ trade_token # "") =>
            sent[i].t_token = trade_token

\* C3 (for a paper client that knows its paper account id): every request of
\* a PaperWebull client whose URL holds the account id goes to a paper base.
C3_paper_requests_to_sandbox ==
    variant = "PaperWebull" =>
        \A i \in 1..Len(sent) :
            (sent[i].ep \in AccountScoped /\ sent[i].acct \in PaperAccounts) =>
                BaseUrl(sent[i].ep) \in PaperBases

PriceKeys == {"lmtPrice", "auxPrice", "trailingStopStep", "trailingType"}
\* The price fields that C4 gives an order of this type.
PriceKeysOf(orderType) ==
    CASE orderType = "LMT" -> {"lmtPrice"}
      [] orderType = "STP" -> {"auxPrice"}
      [] orderType = "STP LMT" -> {"lmtPrice", "auxPrice"}
      [] orderType = "STP TRAIL" -> {"trailingStopStep", "trailingType"}
      [] OTHER -> {}
\* The order-placement requests of place_order and place_order_option.
Placements ==
    {i \in 1..Len(sent) :
        /\ op \in {"place_order", "place_order_option"}
        /\ sent[i].ep \in {"place_orders", "paper_place_order", "place_option_orders"}}

\* C4 (as stated): the price fields of every order-placement request are
\* those of its order type: lmtPrice iff LMT or STP LMT, auxPrice iff STP or
\* STP LMT, the trailing fields iff STP TRAIL, none for MKT.
C4_price_fields_by_type ==
    \A i \in Placements :
        sent[i].data.keys \cap PriceKeys = PriceKeysOf(sent[i].data.orderType)

\* C4 (amended): the price fields are those of the order type in the live
\* place_order; the paper place_order carries lmtPrice and no other price
\* field whatever the type, MKT included; place_order_option never carries
\* the trailing fields and carries either the lmtPrice/auxPrice fields of its
\* type or, when a price it needs was not passed, no price field.
C4_price_fields_by_method ==
    \A i \in Placements :
        LET keys == sent[i].data.keys \cap PriceKeys
            orderType == sent[i].data.orderType
        IN  CASE sent[i].ep = "place_orders" -> keys = PriceKeysOf(orderType)
              [] sent[i].ep = "paper_place_order" -> keys = {"lmtPrice"}
              [] OTHER ->
                    keys \in {PriceKeysOf(orderType) \cap {"lmtPrice", "auxPrice"}, {}}

\* A paper market order was placed, and its payload holds lmtPrice.
C4_witness ==
    /\ op = "place_order" /\ variant = "PaperWebull"
    /\ \E i \in Placements :
        sent[i].data.orderType = "MKT" /\ "lmtPrice" \in sent[i].data.keys

PlacementMethods ==
    {"place_order", "place_order_crypto", "place_order_option", "place_order_otoco"}

\* C5: an order-placement call leaves every field of the client, the stored
\* header dict included, as it was before the call.
C5_placement_keeps_client ==
    [][op' \in PlacementMethods =>
        UNCHANGED <<account_id, trade_token, access_token, refresh_token, token_expire,
                    uuid, did, zone_var, headers, credential_data>>]_vars

LoginMethods == {"login", "credential_login", "api_login", "refresh_login"}

\* C6 (as stated): only login, credential_login, api_login and refresh_login
\* change a session field.
C6_only_logins_change_session ==
    [][op' \notin LoginMethods => session' = session]_vars

\* C6 (amended): the session fields are changed only by login,
\* credential_login, api_login, refresh_login and login_prompt, by
\* get_account_id and is_logged_in (the account id alone) and by
\* get_trade_token and trade_prompt (the trade token alone); every other
\* public operation leaves all of them unchanged.
C6_session_changers ==
    [][/\ op' \notin LoginMethods \cup {"login_prompt", "get_account_id", "is_logged_in",
                                        "get_trade_token", "trade_prompt"}
            => session' = session
       /\ op' \in {"get_account_id", "is_logged_in"}
            => UNCHANGED <<access_token, refresh_token, trade_token, token_expire>>
       /\ op' \in {"get_trade_token", "trade_prompt"}
            => UNCHANGED <<access_token, refresh_token, account_id, token_expire>>]_vars

\* get_trade_token stored a trade token in a client that never logged in.
C6_witness ==
    /\ op = "get_trade_token" /\ ret = "True"
    /\ trade_token \in TradeTokens
    /\ access_token = "" /\ refresh_token = "" /\ account_id = ""

TokensSet == access_token # "" /\ refresh_token # ""

C8_all_empty_after_init ==
    op = "__init__" =>
        /\ access_token = "" /\ refresh_token = "" /\ trade_token = ""
        /\ did = "" /\ account_id = "" /\ token_expire = ""
        /\ sent = <<>>

\* C8 (amended): after construction the access token, refresh token, trade
\* token, account id, expiry timestamp and uuid are empty, the device id is
\* the non-empty id that _get_did read or made, also stored in the header
\* dict, and no request has been sent.
C8_empty_but_did_after_init ==
    op = "__init__" =>
        /\ access_token = "" /\ refresh_token = "" /\ trade_token = ""
        /\ account_id = "" /\ token_expire = "" /\ uuid = ""
        /\ did # "" /\ headers.did = did
        /\ sent = <<>>

\* A paper client was constructed.
C8_witness == op = "__init__" /\ variant = "PaperWebull" /\ did \in DeviceIds

\* The account lookup answered with an account.
AccountFound(v) == CHOOSE r \in AccountAnswers(v) : r.kind = "ok"
\* A ticker search that finds the symbol.
Found == <<[symbol |-> "AAPL", disSymbol |-> "AAPL", tickerId |-> "tid1"]>>
\* n cancel requests, every one answered with success.
AllCancelled(n) == [i \in 1..n |-> "ok"]

\* From the client's present state, login, refresh_login and the order
\* operations send no more requests when an answer is empty, rejected or
\* malformed than when every answer is the successful one.
NoExtraRequests ==
    /\ \A credential_path \in PathArgs, userpass \in BOOLEAN, has_mfa \in BOOLEAN,
          ra1 \in InnerAccountAnswers(variant), rl \in LoginAnswers,
          ra2 \in InnerAccountAnswers(variant) :
          Len(login(Call, userpass, has_mfa, credential_path, FALSE, "", ra1, rl, ra2).sent)
            <= Len(login(Call, userpass, has_mfa, credential_path, FALSE, "",
                         AccountFound(variant), Cred(1), AccountFound(variant)).sent)
    /\ \A r \in RefreshAnswers :
          Len(refresh_login(Call, FALSE, "", r).sent)
            <= Len(refresh_login(Call, FALSE, "", [Cred(1) EXCEPT !.uuid = Absent]).sent)
    /\ \A a \in TickerArgs, data \in {<<>>, Found}, orderType \in {"LMT", "MKT"},
          resp \in Answers :
          /\ Len(place_order(Call, a[1], a[2], orderType, TRUE, TRUE, data, resp).sent)
               <= Len(place_order(Call, a[1], a[2], orderType, TRUE, TRUE, Found, "ok").sent)
          /\ Len(place_order_crypto(Call, a[1], a[2], orderType, FALSE, data, resp).sent)
               <= Len(place_order_crypto(Call, a[1], a[2], orderType, FALSE, Found, "ok").sent)
          /\ Len(Webull_modify_order(Call, AnOrder, None, a[1], a[2], FALSE, None, None,
                                     data, resp).sent)
               <= Len(Webull_modify_order(Call, AnOrder, None, a[1], a[2], FALSE, None, None,
                                          Found, "ok").sent)
    /\ \A resp \in CancelAnswers :
          /\ Len(cancel_order(Call, "o1", resp).sent) <= Len(cancel_order(Call, "o1", "ok").sent)
          /\ Len(place_order_option(Call, TRUE, "LMT", TRUE, TRUE, resp).sent)
               <= Len(place_order_option(Call, TRUE, "LMT", TRUE, TRUE, "ok").sent)
          /\ Len(modify_order_option(Call, TRUE, resp).sent)
               <= Len(modify_order_option(Call, TRUE, "ok").sent)
          /\ Len(PaperWebull_modify_order(Call, AnOrder, "LMT", TRUE, resp).sent)
               <= Len(PaperWebull_modify_order(Call, AnOrder, "LMT", TRUE, "ok").sent)
          /\ Len(cancel_order_otoco(Call, resp).sent)
               <= Len(cancel_order_otoco(Call, "ok").sent)
    /\ \A account \in Answers, n \in 0..MaxOrders :
       \A answers \in CancelRuns(variant, n) :
          Len(cancel_all_orders(Call, account, OpenOrders(n), answers).sent)
            <= Len(cancel_all_orders(Call, "ok", OpenOrders(n), AllCancelled(n)).sent)
    /\ \A ok_lookups \in 0..6, check \in {"refused", "malformed", "forward"},
          resp \in Answers :
          /\ Len(place_order_otoco(Call, "AAPL", ok_lookups, check, resp).sent)
               <= Len(place_order_otoco(Call, "AAPL", 6, "forward", "ok").sent)
          /\ Len(modify_order_otoco(Call, "AAPL", ok_lookups, resp).sent)
               <= Len(modify_order_otoco(Call, "AAPL", 3, "ok").sent)

\* C9 (as stated): no operation sends a further request because a response
\* was empty, rejected or otherwise unsuccessful; in get_security and
\* next_security the request that is answered an empty list is the last one.
C9_no_retry_no_fallback ==
    /\ op = Idle => NoExtraRequests
    /\ op \in {"get_security", "next_security"} =>
        \A i \in 1..(Len(sent) - 1) : sent[i].resp # "empty"

\* C9 (amended): login, refresh_login and the order operations send no
\* further request because a response was empty, rejected or otherwise
\* unsuccessful; get_security and next_security do: when the list of
\* questions they are answered is empty they send a second request, to the
\* privacy-question URL, and return its answer.
C9_fallback_in_security_only ==
    /\ op = Idle => NoExtraRequests
    /\ op \in {"get_security", "next_security"} =>
        /\ Len(sent) = IF sent[1].resp = "empty" THEN 2 ELSE 1
        /\ sent[1].ep = op /\ sent[1].url = 0
        /\ Len(sent) = 2 => sent[2].ep = op /\ sent[2].url = 1 /\ ret = sent[2].resp

\* get_security was answered an empty list and asked the second URL.
C9_witness ==
    /\ op = "get_security"
    /\ Len(sent) = 2 /\ sent[1].resp = "empty" /\ sent[2].url = 1

\* The items of the answer whose symbol or disSymbol is the stock asked for.
Matches(data, stock) ==
    {i \in 1..Len(data) : data[i].symbol = stock \/ data[i].disSymbol = stock}
First(S) == CHOOSE i \in S : \A j \in S : i <= j

\* What C10 says of a call get_ticker(stock) that was answered data.
TickerResult(stock, data) ==
    IF stock \notin Symbols
    THEN ret = "ValueError" /\ sent = <<>>
    ELSE /\ Len(sent) = 1 /\ sent[1].ep = "stock_id" /\ sent[1].keyword = stock
         /\ ret = IF data = <<>> THEN "ValueError"
                  ELSE IF Matches(data, stock) # {}
                       THEN data[First(Matches(data, stock))].tickerId
                       ELSE data[1].tickerId

BarsMethods == {"get_bars", "get_bars_crypto", "get_options_bars"}
\* The number in field j of a vendor row, null read as 0.
FieldOf(row, j) == IF row[j + 1] = "null" THEN 0 ELSE Number(row[j + 1])
\* The OHLCV record of a vendor row, by the field numbers.
RecordOf(row) ==
    [timestamp |-> FieldOf(row, 0), open |-> FieldOf(row, 1), close |-> FieldOf(row, 2),
     high |-> FieldOf(row, 3), low |-> FieldOf(row, 4), volume |-> FieldOf(row, 6),
     vwap |-> FieldOf(row, 7)]
\* The rows the vendor answered the bars request of the call with.
AnsweredRows == sent[Len(sent)].body

\* C11: a table returned by get_bars, get_bars_crypto or get_options_bars
\* holds exactly one record per row of the vendor's answer, built from the
\* row's fields 0, 1, 2, 3, 4, 6 and 7 with null read as 0, in the reverse of
\* the vendor's row order.
C11_one_record_per_row ==
    (op \in BarsMethods /\ ret = "DataFrame") =>
        /\ Len(val.rows) = Len(AnsweredRows)
        /\ \A i \in 1..Len(AnsweredRows) :
               val.rows[i] = RecordOf(AnsweredRows[Len(AnsweredRows) + 1 - i])

\* C11 for the answers whose rows have different timestamps.
C11_distinct_timestamps ==
    (/\ op \in BarsMethods /\ ret = "DataFrame"
     /\ \A i, j \in 1..Len(AnsweredRows) :
            i # j => FieldOf(AnsweredRows[i], 0) # FieldOf(AnsweredRows[j], 0)) =>
        /\ Len(val.rows) = Len(AnsweredRows)
        /\ \A i \in 1..Len(AnsweredRows) :
               val.rows[i] = RecordOf(AnsweredRows[Len(AnsweredRows) + 1 - i])

\* ------------------------------------------------------- C12
\* C12: is_logged_in returns True when the vendor answered its account-id
\* lookup with an account, and False for every other answer, on the live
\* client and on the paper one.
C12_logged_in_iff_lookup_succeeded ==
    op = "is_logged_in" =>
        /\ Len(sent) = 1
        /\ ret = (IF sent[1].resp = "ok" THEN "True" ELSE "False")

\* What is_logged_in does return: False when the lookup raised KeyError (an
\* answer without the key it reads), True for every other answer.
C12_logged_in_unless_key_error ==
    op = "is_logged_in" =>
        /\ Len(sent) = 1
        /\ ret = (IF sent[1].resp \in {"malformed", "errorobj"} THEN "False" ELSE "True")

\* ------------------------------------------------------- C13
\* C13: get_trade_token returns True and stores the answer's tradeToken as
\* the trade token when the answer holds one; otherwise it returns False and
\* the trade token stays what it was before the call.
C13_trade_token_iff_answered ==
    [][/\ (op = Idle /\ op' \in {"get_trade_token", "trade_prompt"}) =>
            /\ Len(sent') = 1
            /\ (ret' = "True") = (sent'[1].resp = "ok")
            /\ (ret' = "False") = (sent'[1].resp # "ok")
            /\ sent'[1].resp # "ok" => trade_token' = trade_token
       /\ \A t \in TradeTokens :
            Return("get_trade_token", get_trade_token(Call, t)) =>
                (ret' = "True" /\ trade_token' = t)]_vars

\* The vendor refused the PIN of a client that holds a trade token, and the
\* client still holds it.
C13_witness ==
    /\ op = "get_trade_token"
    /\ ret = "False"
    /\ sent[1].resp = "rejected"
    /\ trade_token \in TradeTokens

\* ------------------------------------------------------- C14
\* The requests of the call to the endpoint ep.
SentTo(ep) == {i \in 1..Len(sent) : sent[i].ep = ep}
\* The answers to the check request whose forward is falsy.
Falsy == {"refused", "unexplained"}

\* C14: place_order_otoco sends its place request only after a check request
\* of the same OTOCO payload that was answered with a truthy forward; when
\* forward is falsy it returns False and sends no place request.
C14_check_before_place ==
    op = "place_order_otoco" =>
        /\ \A i \in SentTo("place_otoco_orders") :
               \E j \in SentTo("check_otoco_orders") :
                   /\ j < i
                   /\ sent[j].resp = "forward"
                   /\ sent[j].data = sent[i].data
        /\ \A j \in SentTo("check_otoco_orders") :
               sent[j].resp \in Falsy =>
                   (ret = "False" /\ SentTo("place_otoco_orders") = {})

\* What holds of every answer: the order of the two requests, and no place
\* request after a falsy forward, whether the call returns False or raises.
C14_no_place_without_forward ==
    op = "place_order_otoco" =>
        /\ \A i \in SentTo("place_otoco_orders") :
               \E j \in SentTo("check_otoco_orders") :
                   /\ j < i
                   /\ sent[j].resp = "forward"
                   /\ sent[j].data = sent[i].data
        /\ \A j \in SentTo("check_otoco_orders") :
               sent[j].resp \in Falsy =>
                   /\ SentTo("place_otoco_orders") = {}
                   /\ ret = (IF sent[j].resp = "refused" THEN "False" ELSE "KeyError")

\* ------------------------------------------------------- C15
\* The cancel requests of the call.
Cancels == SentTo("cancel_order") \cup SentTo("paper_cancel_order")

\* C15: cancel_all_orders that got the list of open orders has, when it
\* ends, sent a cancel request for every order of the list, whatever the
\* vendor answered to each, and has returned.
C15_every_order_cancelled ==
    (op = "cancel_all_orders" /\ sent[1].resp = "ok") =>
        /\ \A i \in 1..Len(sent[1].body) : \E j \in Cancels : sent[j].url = sent[1].body[i]
        /\ ret = None

\* What holds of every answer: the cancel requests go out in the order of the
\* list, one per order, up to the first one answered without success key (on
\* the live client), at which the call ends in KeyError.
C15_cancelled_up_to_key_error ==
    (op = "cancel_all_orders" /\ sent[1].resp = "ok") =>
        /\ Len(sent) - 1 <= Len(sent[1].body)
        /\ \A j \in 2..Len(sent) : j \in Cancels /\ sent[j].url = sent[1].body[j - 1]
        /\ \A j \in 2..(Len(sent) - 1) : sent[j].resp # "malformed" \/ variant = "PaperWebull"
        /\ IF variant = "Webull" /\ Len(sent) > 1 /\ sent[Len(sent)].resp = "malformed"
           THEN ret = "KeyError"
           ELSE ret = None /\ Len(sent) - 1 = Len(sent[1].body)

\* ------------------------------------------------------- C16
\* The stock order requests of place_order and modify_order, live and paper.
StockOrders ==
    {i \in 1..Len(sent) :
        /\ op \in {"place_order", "modify_order"}
        /\ sent[i].ep \in {"place_orders", "modify_order", "paper_place_order",
                           "paper_modify_order"}}

\* C16: in every stock order request with order type MKT,
\* outsideRegularTradingHour is False.
C16_market_orders_regular_hours ==
    \A i \in StockOrders :
        sent[i].data.orderType = "MKT" => ~sent[i].data.outsideRegularTradingHour

\* What holds: the same for every stock order request but the one of the
\* paper modify_order.
C16_market_orders_but_paper_modify ==
    \A i \in StockOrders :
        (sent[i].data.orderType = "MKT" /\ sent[i].ep # "paper_modify_order")
            => ~sent[i].data.outsideRegularTradingHour

\* ------------------------------------------------------- C17
\* The rules the request of a run_screener call holds.
SentRules == sent[1].data.rules
\* The range rule that the claim describes for the bounds lte and gte.
RangeRule(lte, gte) == "gte=" \o lte \o "&lte=" \o gte

\* C17: the request of run_screener holds the region rule always and each
\* range rule (price, volume, changeRatio) exactly when both of its bounds
\* were passed, with the *_lte argument as the gte= value and the *_gte
\* argument as the lte= value.
C17_screener_rules ==
    [][\A ranges \in ScreenerRanges, resp \in Answers :
         Return("run_screener", run_screener(Call, ranges, resp)) =>
            /\ Len(sent') = 1
            /\ RegionRule \in DOMAIN SentRules'
            /\ DOMAIN SentRules' \subseteq
                    {RegionRule, PriceRule, VolumeRule, ChangeRatioRule}
            /\ (PriceRule \in DOMAIN SentRules') = (ranges[1] # None /\ ranges[2] # None)
            /\ (VolumeRule \in DOMAIN SentRules') = (ranges[3] # None /\ ranges[4] # None)
            /\ (ChangeRatioRule \in DOMAIN SentRules')
                    = (ranges[5] # None /\ ranges[6] # None)
            /\ PriceRule \in DOMAIN SentRules' =>
                    SentRules'[PriceRule] = RangeRule(ranges[1], ranges[2])
            /\ VolumeRule \in DOMAIN SentRules' =>
                    SentRules'[VolumeRule] = RangeRule(ranges[3], ranges[4])
            /\ ChangeRatioRule \in DOMAIN SentRules' =>
                    SentRules'[ChangeRatioRule] = RangeRule(ranges[5], ranges[6])]_vars

\* A screener request with a price rule made of price_lte = 1 and
\* price_gte = 2, and with no volume rule.
C17_witness ==
    /\ op = "run_screener"
    /\ DOMAIN SentRules = {RegionRule, PriceRule}
    /\ SentRules[PriceRule] = "gte=1&lte=2"

\* ------------------------------------------------------- C18
\* The answer holds a non-empty accessToken, refreshToken and tokenExpireTime.
CompleteTokens(r) ==
    /\ r.accessToken \notin {Absent, ""}
    /\ r.refreshToken \notin {Absent, ""}
    /\ r.tokenExpireTime \notin {Absent, ""}

\* C18: refresh_login replaces the access token, the refresh token and the
\* expiry together by the answer's values when the answer holds all three
\* non-empty; on every other answer, one that makes it raise included, none
\* of the three changes; uuid, account id and trade token never change.
C18_refresh_all_or_nothing ==
    [][\A r \in RefreshAnswers, save_token \in BOOLEAN, token_path \in PathArgs :
         Return("refresh_login", refresh_login(Call, save_token, token_path, r)) =>
            /\ IF CompleteTokens(r)
               THEN /\ access_token' = r.accessToken
                    /\ refresh_token' = r.refreshToken
                    /\ token_expire' = r.tokenExpireTime
               ELSE UNCHANGED <<access_token, refresh_token, token_expire>>
            /\ UNCHANGED <<uuid, account_id, trade_token>>]_vars

\* refresh_login raised KeyError on an answer that holds an accessToken and no
\* refreshToken, and the client holds no token of that answer.
C18_witness ==
    /\ op = "refresh_login" /\ ret = "KeyError"
    /\ Len(sent) = 1 /\ sent[1].resp = "malformed"
    /\ access_token = "" /\ refresh_token = "" /\ token_expire = ""

\* ------------------------------------------------------- C19
\* The answers to the account lookup of a login, asked or not.
LoginLookups == InnerAccountAnswers(variant) \cup {Unasked(variant)}

\* C19 (as stated): login with a username and a password and no
\* credential_path stores the answer's access token, refresh token, expiry and
\* uuid exactly when the answer holds an accessToken; otherwise these four
\* fields and the account id are unchanged.
C19_login_sets_iff_access_token ==
    [][\A has_mfa \in BOOLEAN, save_token \in BOOLEAN, token_path \in PathArgs,
          rl \in LoginAnswers, ra2 \in LoginLookups :
         Return("login", login(Call, TRUE, has_mfa, "", save_token, token_path,
                               Unasked(variant), rl, ra2)) =>
            IF rl.accessToken # Absent
            THEN /\ access_token' = rl.accessToken
                 /\ refresh_token' = rl.refreshToken
                 /\ token_expire' = rl.tokenExpireTime
                 /\ uuid' = rl.uuid
            ELSE UNCHANGED <<access_token, refresh_token, token_expire, uuid,
                             account_id>>]_vars

\* What the code does: the four fields are stored when the answer holds all
\* four keys, nothing is stored when it holds no accessToken, and an answer
\* with an accessToken and no refreshToken makes login raise KeyError with the
\* access token alone replaced.
C19_login_sets_unless_key_error ==
    [][\A has_mfa \in BOOLEAN, save_token \in BOOLEAN, token_path \in PathArgs,
          rl \in LoginAnswers, ra2 \in LoginLookups :
         Return("login", login(Call, TRUE, has_mfa, "", save_token, token_path,
                               Unasked(variant), rl, ra2)) =>
            /\ HasLoginKeys(rl) =>
                    /\ access_token' = rl.accessToken
                    /\ refresh_token' = rl.refreshToken
                    /\ token_expire' = rl.tokenExpireTime
                    /\ uuid' = rl.uuid
            /\ rl.accessToken = Absent =>
                    UNCHANGED <<access_token, refresh_token, token_expire, uuid,
                                account_id>>
            /\ (rl.accessToken # Absent /\ rl.refreshToken = Absent) =>
                    /\ ret' = "KeyError"
                    /\ access_token' = rl.accessToken
                    /\ UNCHANGED <<refresh_token, token_expire, uuid, account_id>>]_vars

\* ------------------------------------------------------- C20
\* The file that credential_login(path) opens.
CredentialFile(path) == files[IF path = "" THEN DEFAULT_CREDENTIAL_PATH ELSE path]

\* C20: credential_login on a path whose file cannot be opened returns None,
\* sends no request, writes no file and changes no field of the session.
C20_missing_file_changes_nothing ==
    [][\A path \in PathArgs, refresh \in BOOLEAN, rr \in RefreshAnswers,
          ra \in InnerAccountAnswers(variant) \cup {Unasked(variant)} :
         (/\ CredentialFile(path).kind = "nofile"
          /\ Return("credential_login", credential_login(Call, path, refresh, ra, rr)))
            => /\ ret' = None
               /\ sent' = <<>>
               /\ UNCHANGED <<files, access_token, refresh_token, token_expire, uuid,
                              account_id, trade_token, credential_data, headers,
                              zone_var, did>>]_vars

\* A logged-in client called credential_login, the file is missing, and the
\* client still holds its tokens.
C20_witness ==
    /\ op = "credential_login" /\ ret = None /\ sent = <<>>
    /\ files[DEFAULT_CREDENTIAL_PATH].kind = "nofile"
    /\ access_token # "" /\ refresh_token # "" /\ account_id \notin {"", None}

\* ------------------------------------------------------- C21
\* The file at path p holds the four keys with the values of the session.
HoldsSession(file) ==
    /\ file.accessToken = access_token
    /\ file.refreshToken = refresh_token
    /\ file.tokenExpireTime = token_expire
    /\ file.uuid = uuid

\* C21 (as stated): a credential file that a call writes holds the access
\* token, refresh token, expiry and uuid of the session as the call leaves it,
\* so that a later credential_login restores them.
C21_files_round_trip ==
    [][\A p \in Paths : files'[p] # files[p] => HoldsSession(files[p])']_vars

\* What the code does: the files written by login and refresh_login hold the
\* session, and so does the file written by a credential_login whose refresh
\* was accepted.
C21_token_files_round_trip ==
    [][\A p \in Paths :
         (/\ files'[p] # files[p]
          /\ \/ op' \in {"login", "refresh_login"}
             \/ op' = "credential_login" /\ CompleteTokens(credential_data'))
            => HoldsSession(files[p])']_vars

\* credential_login restores the four fields from any file that holds the
\* four keys, before it looks up the account.
C21_credential_login_restores_file ==
    \A path \in PathArgs, ra \in InnerAccountAnswers(variant) :
        Readable(path) =>
            LET k == credential_login(Call, path, FALSE, ra, RejectedBody)
                file == files[IF path = "" THEN DEFAULT_CREDENTIAL_PATH ELSE path]
            IN  /\ k.s.access_token = file.accessToken
                /\ k.s.refresh_token = file.refreshToken
                /\ k.s.token_expire = file.tokenExpireTime
                /\ k.s.uuid = file.uuid

\* ------------------------------------------------------- C22
\* C22 (as stated): login with a credential_path and no username or password
\* returns with the access token, refresh token, expiry and uuid of the file
\* at credential_path, whatever the default credential file holds.
C22_login_restores_named_file ==
    [][\A credential_path \in Paths,
          ra1 \in InnerAccountAnswers(variant) \cup {Unasked(variant)},
          ra2 \in InnerAccountAnswers(variant) \cup {Unasked(variant)} :
         (/\ Readable(credential_path)
          /\ Return("login", login(Call, FALSE, FALSE, credential_path, FALSE, "",
                                   ra1, RejectedBody, ra2))
          /\ ret' \notin Exceptions)
            => HoldsSession(files[credential_path])']_vars

\* What the code does: login goes on to credential_login() of the default
\* path, so the session is the default file's when that file can be read and
\* the named file's only when it cannot.
C22_login_restores_default_file ==
    [][\A credential_path \in Paths,
          ra1 \in InnerAccountAnswers(variant) \cup {Unasked(variant)},
          ra2 \in InnerAccountAnswers(variant) \cup {Unasked(variant)} :
         (/\ Readable(credential_path)
          /\ Return("login", login(Call, FALSE, FALSE, credential_path, FALSE, "",
                                   ra1, RejectedBody, ra2))
          /\ ret' \notin Exceptions)
            => IF Readable("")
               THEN HoldsSession(files[DEFAULT_CREDENTIAL_PATH])'
               ELSE HoldsSession(files[credential_path])']_vars

\* ------------------------------------------------------- C23
\* Every request of the call that carries an access_token header carries t.
CarryToken(t) ==
    \A i \in 1..Len(sent) : sent[i].access_token \in {Absent, t}

\* The methods that send the stored header dict without build_req_headers.
StoredHeaderMethods ==
    {"get_mfa", "check_mfa", "check_security", "get_security", "next_security",
     "login", "login_prompt"}

\* C23 (for the calls that leave the session's access token as it is): every
\* request that a call sends with an access_token header carries the access
\* token of the session.
C23_requests_carry_session_token ==
    [][(op' # Idle /\ access_token' = access_token) => CarryToken(access_token)']_vars

\* What the code does: the requests of the methods that build their headers
\* carry the session's access token; get_mfa, check_mfa, check_security,
\* get_security, next_security and login send the header dict as the last
\* build_req_headers left it.
C23_built_headers_carry_session_token ==
    [][(op' \notin StoredHeaderMethods \cup {Idle} /\ access_token' = access_token)
            => CarryToken(access_token)']_vars

\* ------------------------------------------------------- C24
\* The endpoints of get_quote, get_account, get_ticker and logout, whose
\* headers are built with include_trade_token=False.
NoTradeTokenEndpoints == {"quotes", "account", "paper_account", "stock_id", "logout"}

\* C24 (as stated): a request of get_quote, get_account, get_ticker or logout
\* carries no t_token header.
C24_no_trade_token_header ==
    \A i \in 1..Len(sent) :
        sent[i].ep \in NoTradeTokenEndpoints => sent[i].t_token = Absent

\* What the code does: build_req_headers writes into the one stored header
\* dict and removes no key, so such a request carries the t_token that the
\* stored dict holds, and none only as long as no call has put one there.
C24_trade_token_header_stays ==
    /\ \A i \in 1..Len(sent) :
          sent[i].ep \in NoTradeTokenEndpoints => sent[i].t_token = headers.t_token
    /\ [][headers.t_token # Absent => headers.t_token' # Absent]_vars

\* ------------------------------------------------------- C25
\* The call sent an account lookup that the vendor answered with an account.
LookupSucceeded ==
    \E i \in 1..Len(sent) :
        sent[i].ep \in {"account_id", "paper_account_id"} /\ sent[i].resp = "ok"

\* C25 (as stated): the account id is the initial empty string or an id that
\* an account lookup returned, and a call none of whose account lookups
\* succeeded leaves the stored account id as it was.
C25_account_id_from_lookups ==
    [][/\ account_id' \in {""} \cup LiveAccounts \cup PaperAccounts
       /\ (op' # Idle /\ ~LookupSucceeded') => account_id' = account_id]_vars

\* What the code does: get_account_id, credential_login and is_logged_in leave
\* the account id alone when the lookup fails; login and api_login assign the
\* lookup's return value, which is None when it fails.
C25_failed_lookup_stores_none ==
    [][(op' # Idle /\ ~LookupSucceeded' /\ account_id' # account_id)
            => (op' \in {"login", "api_login", "login_prompt"} /\ account_id' = None)]_vars

\* ------------------------------------------------------- C26
\* The call sent one request, that is no ticker search and is for ticker id t.
OneRequestFor(t) ==
    /\ Len(sent) = 1
    /\ sent[1].ep # "stock_id"
    /\ sent[1].tId = t

\* The calls of the methods that take a stock symbol and a ticker id, with
\* the arguments a and the answers data and resp.
CallsWith(a, data, resp) ==
    \/ Return("get_quote", get_quote(Call, a[1], a[2], data, resp))
    \/ Return("get_option_quote", get_option_quote(Call, a[1], a[2], data, resp))
    \/ \E m \in TickerMethods : Return(m, ticker_request(Call, m, a[1], a[2], data, resp))
    \/ Return("place_order", place_order(Call, a[1], a[2], "LMT", TRUE, TRUE, data, resp))
    \/ Return("place_order_crypto",
              place_order_crypto(Call, a[1], a[2], "LMT", FALSE, data, resp))

\* C26 (as stated): a call of one of these methods with a tId sends no ticker
\* search and sends its request for exactly that tId, with and without a
\* stock symbol.
C26_ticker_id_first ==
    [][\A a \in SymbolAndIdArgs, data \in TickerData("AAPL"), resp \in Answers :
         (a[2] # None /\ CallsWith(a, data, resp)) => OneRequestFor(a[2])']_vars

\* What the code does: the ten methods that test "if not tId is None" first
\* send for the supplied tId; get_quote and get_option_quote test "if stock:"
\* and do so only when no stock symbol comes with the tId.
C26_ticker_id_first_but_quotes ==
    [][\A a \in SymbolAndIdArgs, data \in TickerData("AAPL"), resp \in Answers :
         (/\ a[2] # None
          /\ CallsWith(a, data, resp)
          /\ op' \in {"get_quote", "get_option_quote"} => a[1] = None)
            => OneRequestFor(a[2])']_vars
====
